---- MODULE Spec2Model ----
(***************************************************************************)
(* Model of cursor-cli-proxy: the streaming reconciliation loop of         *)
(* Executor.run_stream, the request orchestration of chat_completions and  *)
(* the file-lock guarded session index of SessionManager.                  *)
(*                                                                         *)
(* Text is a sequence of characters, so that concatenation and comparison  *)
(* of strings are computed, not assumed.  A history fingerprint (SHA-256   *)
(* of the canonical JSON of the {role, content} pairs) is represented by   *)
(* its preimage, the sequence of <<role, content>> pairs: the digest is    *)
(* taken to be collision free.                                             *)
(***************************************************************************)
EXTENDS Integers, Sequences, FiniteSets, TLC

VARIABLES
    \* ---- Executor.run_stream ----
    lines,                  \* stdout lines consumed so far (history)
    out,                    \* chunks yielded so far, in order
    yielded,                \* Len(out) after each consumed line (history)
    last_type,              \* local last_type
    last_full_text,         \* local last_full_text
    tool_count,             \* local tool_count
    call_id_to_tool_number, \* local call_id -> tool_number map
    st,                     \* position of the generator
    sprocess,               \* what run_stream has done to its process
    \* ---- chat_completions on one server process ----
    index,                  \* "sessions" of sessions.json: fingerprint -> record
    created,                \* number of sessions create-chat has returned
    clock,                  \* datetime.now(): grows with every record written
    reqs,                   \* slot -> locals of a request in flight, or Idle
    received,               \* number of requests received so far
    completed,              \* the exchanges that ended with a reply
    exchanged,              \* per session, the turns of its completed exchanges
    last,                   \* outcome of the step taken last
    \* ---- SessionManager calls of several processes on one sessions.json ----
    storage,                \* text of sessions.json: Some(sessions), or Nothing
                            \* when the text is not a JSON document
    lock,                   \* holder of sessions.json.lock, 0 when free
    proc,                   \* process -> position and locals of its call
    started,                \* number of calls started so far
    live,                   \* fingerprints the finished writes inserted and
                            \* no finished write removed
    \* ---- Executor.run_non_stream ----
    stdout_buffer,          \* local stdout_buffer: the bytes read so far
    returncode,             \* process.returncode: None while it has not exited
    signals,                \* signals sent to the process, in order
    waited,                 \* whether an await of process.wait() has finished
    npc,                    \* position of the coroutine
    outcome,                \* what the call returned or raised
    \* ---- CommandBuilder ----
    bclass,                 \* the class whose build ran last, "none" at first
    bmessages,              \* self.messages
    bprompt,                \* the instruction _merge_messages returned
    bfiles,                 \* the texts written to files under the tmp directory
    \* ---- ModelRegistry.to_display_id / to_cli_id ----
    gmodel,                 \* the model id of the CLI
    gdisplay,               \* the id shown for it at the API
    gcli,                   \* the id given back to the CLI, None before that
    \* ---- SessionManager.calculate_history_hash ----
    hprev,                  \* the turns and the fingerprint of the call before
    hcur,                   \* the turns and the fingerprint of the last call
    \* ---- SessionManager.create_session ----
    cdirs,                  \* the directories that exist
    cindex,                 \* the session index on disk
    ccalls,                 \* the calls of create_session made so far
    clast,                  \* what the last call did, Nothing before it
    \* ---- chat_completions.event_generator ----
    epos,                   \* where the generator is suspended
    ethink,                 \* think_block is not empty
    echunks,                \* the chunks run_stream has yielded
    eevents,                \* the SSE events the generator has yielded
    eraised,                \* the call that raised, "none" when none did
    emigrated               \* update_session_hash has returned

svars == <<lines, out, yielded, last_type, last_full_text, tool_count,
           call_id_to_tool_number, st, sprocess>>

rvars == <<index, created, clock, reqs, received, completed, exchanged, last>>

lvars == <<storage, lock, proc, started, live>>

nvars == <<stdout_buffer, returncode, signals, waited, npc, outcome>>

bvars == <<bclass, bmessages, bprompt, bfiles>>

gvars == <<gmodel, gdisplay, gcli>>

hvars == <<hprev, hcur>>

cvars == <<cdirs, cindex, ccalls, clast>>

evars == <<epos, ethink, echunks, eevents, eraised, emigrated>>

\* the variables of the calls modelled on their own
ovars == <<bvars, gvars, hvars, cvars, evars>>

\* the variables a call on bvars leaves alone
notb == <<svars, rvars, lvars, nvars, gvars, hvars, cvars, evars>>

\* the variables a call on gvars leaves alone
notg == <<svars, rvars, lvars, nvars, bvars, hvars, cvars, evars>>

\* the variables a call on hvars leaves alone
noth == <<svars, rvars, lvars, nvars, bvars, gvars, cvars, evars>>

\* the variables a call on cvars leaves alone
notc == <<svars, rvars, lvars, nvars, bvars, gvars, hvars, evars>>

\* the variables a call on evars leaves alone
note == <<svars, rvars, lvars, nvars, bvars, gvars, hvars, cvars>>

vars == <<svars, rvars, lvars, nvars, ovars>>

-----------------------------------------------------------------------------
(* Bounds *)
MaxLines == 3
MaxRequests == 3
MaxInFlight == 2
MaxChunks == 1
NProcs == 2
MaxCalls == 3

-----------------------------------------------------------------------------
(* Text helpers *)

RECURSIVE Flatten(_)
\* "".join(seq) for a sequence of texts
Flatten(ss) == IF ss = <<>> THEN <<>> ELSE Head(ss) \o Flatten(Tail(ss))

\* Python None for an absent key / unset local
None == "None"

-----------------------------------------------------------------------------
(* Executor.run_stream *)

TextItem(t) == [type |-> "text", text |-> t]
OtherItem == [type |-> "tool_use", text |-> <<>>]

\* message.content lists carried by the assistant events that are fed in
AssistantContents ==
    { <<>>,
      <<TextItem(<<"a">>)>>,
      <<TextItem(<<"b">>)>>,
      <<TextItem(<<"a">>), TextItem(<<"b">>)>>,
      <<OtherItem, TextItem(<<"a">>)>>,
      <<TextItem(<<>>)>> }

\* One stdout line.  json: "object" (a JSON record), "nonobject" (valid JSON
\* that is not a record), "invalid" (json.loads raises JSONDecodeError).
Line(json, type, ts, content, subtype, call_id, key, result) ==
    [json |-> json, type |-> type, ts |-> ts, content |-> content,
     subtype |-> subtype, call_id |-> call_id, key |-> key, result |-> result]

AssistantEvents ==
    { Line("object", "assistant", TRUE, c, None, None, None, None) :
        c \in AssistantContents }
    \cup { Line("object", "assistant", FALSE, <<TextItem(<<"a">>)>>, None, None, None, None) }

ToolEvents ==
    { Line("object", "tool_call", FALSE, <<>>, "started", c, "readToolCall", None) :
        c \in {"A", "B", None} }
    \cup { Line("object", "tool_call", FALSE, <<>>, "started", "A", None, None) }
    \cup { Line("object", "tool_call", FALSE, <<>>, "completed", c, "readToolCall", "success") :
        c \in {"A", "B", None} }
    \cup { Line("object", "tool_call", FALSE, <<>>, "completed", "A", "readToolCall", None) }
    \cup { Line("object", "tool_call", FALSE, <<>>, "progress", "A", "readToolCall", None) }

OtherEvents ==
    { Line("object", t, FALSE, <<>>, None, None, None, None) :
        t \in {"system", "thinking", "result", "user", None} }
    \cup { Line("nonobject", None, FALSE, <<>>, None, None, None, None),
           Line("invalid", None, FALSE, <<>>, None, None, None, None) }

Lines == AssistantEvents \cup ToolEvents \cup OtherEvents

\* A yielded chunk: kind, text, tool number (0 when there is none)
Chunk(k, t, n) == [k |-> k, t |-> t, n |-> n]
Separator == Chunk("sep", <<"\n">>, 0)

RECURSIVE FullText(_)
\* executor.py 107-112: concatenation of the text items of content_list
FullText(content) ==
    IF content = <<>> THEN <<>>
    ELSE (IF Head(content).type = "text" THEN Head(content).text ELSE <<>>)
         \o FullText(Tail(content))

\* executor.py 97: the event's type differs from the previous one
TypeChanged(l) == l.type # last_type

\* fault: a delta equal to the accumulated text is yielded all the same
ShouldYieldTextAlways(acc, full_text) == TRUE

\* executor.py 116: the delta is yielded unless it equals the accumulated text
ShouldYieldText(acc, full_text) == acc # full_text

\* fault: the delta is compared with the text of the event before it only
AccumulateLast(acc, full_text) == full_text

\* executor.py 120: last_full_text += full_text
Accumulate(acc, full_text) == acc \o full_text

\* tool_formatters.py 5-58: None only for an empty tool_call object
format_tool_call_start(l, n) ==
    IF l.key = None THEN <<>> ELSE <<Chunk("tool_start", <<>>, n)>>

\* tool_formatters.py 61-144: a summary when the result has a known shape
format_tool_call_result(l, n) ==
    IF l.key = None \/ l.result = None THEN <<>>
    ELSE <<Chunk("tool_result", <<>>, n)>>

\* fault: every completion is labelled with the newest ordinal
LookupToolNumberLatest(map, call_id) ==
    IF map = <<>> THEN 0 ELSE CHOOSE n \in {map[c] : c \in DOMAIN map} :
                                 \A c \in DOMAIN map : map[c] <= n

\* executor.py 152: call_id_to_tool_number.get(call_id) if call_id else None
LookupToolNumber(map, call_id) ==
    IF call_id # None /\ call_id \in DOMAIN map THEN map[call_id] ELSE 0

\* fault: a result event does not end the loop
StopsAtNever(l) == FALSE

\* executor.py 156-159: the event that breaks out of the read loop
StopsAt(l) == l.type = "result"

StreamInit ==
    /\ lines = <<>>
    /\ out = <<>>
    /\ yielded = <<>>
    /\ last_type = None
    /\ last_full_text = <<>>
    /\ tool_count = 0
    /\ call_id_to_tool_number = <<>>
    /\ st = "reading"
    /\ sprocess = [signals |-> <<>>, waited |-> FALSE]

\* executor.py 165-168: a line that is not JSON is yielded as it is
ReadInvalid(l) ==
    /\ l.json = "invalid"
    /\ out' = Append(out, Chunk("raw", <<>>, 0))
    /\ UNCHANGED <<last_type, last_full_text, tool_count, call_id_to_tool_number, st>>

\* executor.py 92-96: data.get on a JSON value that is no record raises
\* AttributeError, which the except clause at 165 does not catch
ReadNonObject(l) ==
    /\ l.json = "nonobject"
    /\ st' = "raised"
    /\ UNCHANGED <<out, last_type, last_full_text, tool_count, call_id_to_tool_number>>

\* executor.py 96-163: one parsed event
ReadEvent(l) ==
    /\ l.json = "object"
    /\ LET sep == IF TypeChanged(l) THEN <<Separator>> ELSE <<>>
           acc == IF TypeChanged(l) THEN <<>> ELSE last_full_text
           full_text == FullText(l.content)
       IN
       CASE l.type = "assistant" /\ l.ts /\ full_text = <<>> ->
              \* 114-115: continue, last_type is not updated
              /\ out' = out \o sep
              /\ last_full_text' = acc
              /\ UNCHANGED <<last_type, tool_count, call_id_to_tool_number, st>>
         [] l.type = "assistant" /\ l.ts /\ full_text # <<>> ->
              /\ out' = out \o sep \o
                    (IF ShouldYieldText(acc, full_text)
                     THEN <<Chunk("text", full_text, 0)>> ELSE <<>>)
              /\ last_full_text' = Accumulate(acc, full_text)
              /\ last_type' = l.type
              /\ UNCHANGED <<tool_count, call_id_to_tool_number, st>>
         [] l.type = "thinking" ->
              /\ out' = out \o sep \o <<Chunk("dot", <<".">>, 0)>>
              /\ last_full_text' = acc
              /\ last_type' = l.type
              /\ UNCHANGED <<tool_count, call_id_to_tool_number, st>>
         [] l.type = "tool_call" /\ l.subtype = "started" ->
              /\ tool_count' = tool_count + 1
              /\ call_id_to_tool_number' =
                    IF l.call_id # None
                    THEN (l.call_id :> (tool_count + 1)) @@ call_id_to_tool_number
                    ELSE call_id_to_tool_number
              /\ out' = out \o sep \o format_tool_call_start(l, tool_count + 1)
              /\ last_full_text' = acc
              /\ last_type' = l.type
              /\ UNCHANGED st
         [] l.type = "tool_call" /\ l.subtype = "completed" ->
              /\ out' = out \o sep \o
                    format_tool_call_result(l,
                        LookupToolNumber(call_id_to_tool_number, l.call_id))
              /\ last_full_text' = acc
              /\ last_type' = l.type
              /\ UNCHANGED <<tool_count, call_id_to_tool_number, st>>
         [] StopsAt(l) ->
              \* 156-159: break
              /\ out' = out \o sep
              /\ last_full_text' = acc
              /\ st' = "ended"
              /\ UNCHANGED <<last_type, tool_count, call_id_to_tool_number>>
         [] OTHER ->
              \* assistant without timestamp, system, other tool_call
              \* subtypes, unknown types
              /\ out' = out \o sep
              /\ last_full_text' = acc
              /\ last_type' = l.type
              /\ UNCHANGED <<tool_count, call_id_to_tool_number, st>>

\* executor.py 84-168: the loop body for the next stdout line
ReadLine ==
    /\ UNCHANGED <<rvars, lvars, nvars, ovars>>
    /\ st = "reading"
    /\ Len(lines) < MaxLines
    /\ \E l \in Lines :
        /\ lines' = Append(lines, l)
        /\ (ReadInvalid(l) \/ ReadNonObject(l) \/ ReadEvent(l))
    /\ yielded' = Append(yielded, Len(out'))
    /\ UNCHANGED sprocess

\* executor.py 84: stdout reaches end of file
EndOfStream ==
    /\ UNCHANGED <<rvars, lvars, nvars, ovars>>
    /\ st = "reading"
    /\ st' = "ended"
    /\ UNCHANGED <<lines, out, yielded, last_type, last_full_text, tool_count,
                   call_id_to_tool_number, sprocess>>

\* executor.py 170-176: wait for the process, raise on a non-zero exit code
WaitProcess ==
    /\ UNCHANGED <<rvars, lvars, nvars, ovars>>
    /\ st = "ended"
    /\ \E rc \in {0, 1} :
        st' = IF rc # 0 THEN "failed" ELSE "returned"
    /\ sprocess' = [sprocess EXCEPT !.waited = TRUE]
    /\ UNCHANGED <<lines, out, yielded, last_type, last_full_text, tool_count,
                   call_id_to_tool_number>>

\* executor.py 100-168: the consumer closes the generator while it
\* is suspended at a yield; GeneratorExit is raised there, and no handler
\* or finally clause of run_stream is around it
Close ==
    /\ UNCHANGED <<rvars, lvars, nvars, ovars>>
    /\ st = "reading"
    /\ out # <<>>
    /\ st' = "closed"
    /\ UNCHANGED <<lines, out, yielded, last_type, last_full_text, tool_count,
                   call_id_to_tool_number, sprocess>>

StreamNext == ReadLine \/ EndOfStream \/ WaitProcess \/ Close

-----------------------------------------------------------------------------
(* Messages, tags and fingerprints *)

Turn(role, content) == [role |-> role, content |-> content]
U(t) == Turn("user", t)

\* An Optional value: <<>> is None, <<v>> is the value v
Nothing == <<>>
Some(v) == <<v>>

\* the session ids create-chat prints, in the order it is called
SessionIds == <<"s1", "s2", "s3", "s4", "s5", "s6">>

\* a <session_id>..</session_id> tag is one token of a text
SessionIdTags == {"<session_id>s1</session_id>", "<session_id>s9</session_id>"}
TagSessionId(tok) ==
    CASE tok = "<session_id>s1</session_id>" -> "s1"
      [] tok = "<session_id>s9</session_id>" -> "s9"

RECURSIVE StripLeft(_)
StripLeft(t) == IF t # <<>> /\ Head(t) = " " THEN StripLeft(Tail(t)) ELSE t
RECURSIVE StripRight(_)
StripRight(t) ==
    IF t # <<>> /\ t[Len(t)] = " " THEN StripRight(SubSeq(t, 1, Len(t) - 1)) ELSE t
\* str.strip()
Strip(t) == StripRight(StripLeft(t))

\* tag_parser.py 36-56: first tag gives the id, every tag is cut out, then strip
parse_session_id_tag(content) ==
    LET tags == SelectSeq(content, LAMBDA tok : tok \in SessionIdTags) IN
    IF tags = <<>>
    THEN [session_id |-> Nothing, cleaned |-> content]
    ELSE [session_id |-> Some(TagSessionId(tags[1])),
          cleaned |-> Strip(SelectSeq(content, LAMBDA tok : tok \notin SessionIdTags))]

RECURSIVE ExtractFrom(_, _)
\* tag_parser.py 109-130: the loop over the messages, session_id found so far
ExtractFrom(messages, session_id) ==
    IF messages = <<>> THEN [session_id |-> session_id, cleaned |-> <<>>]
    ELSE LET msg == Head(messages)
             parsed == IF msg.role = "system" /\ session_id = Nothing
                       THEN parse_session_id_tag(msg.content)
                       ELSE [session_id |-> Nothing, cleaned |-> msg.content]
             sid == IF session_id = Nothing THEN parsed.session_id ELSE session_id
             rest == ExtractFrom(Tail(messages), sid)
         IN [session_id |-> rest.session_id,
             cleaned |-> <<Turn(msg.role, parsed.cleaned)>> \o rest.cleaned]

\* tag_parser.py 95-132 (the requests fed in carry no <workspace> tag)
extract_workspace_from_messages(messages) ==
    [workspace |-> Nothing] @@ ExtractFrom(messages, Nothing)

\* session_manager.py 41-74: the canonical list of {role, content} pairs
calculate_history_hash(messages) ==
    [i \in 1..Len(messages) |-> <<messages[i].role, messages[i].content>>]

-----------------------------------------------------------------------------
(* SessionManager: the index as a value *)

\* session_manager.py 223-226
get_session_by_hash(sessions, history_hash) ==
    IF history_hash \in DOMAIN sessions THEN Some(sessions[history_hash]) ELSE Nothing

\* session_manager.py 228-246: the fingerprints whose record carries session_id
HashesOfSessionId(sessions, session_id) ==
    {h \in DOMAIN sessions : sessions[h].session_id = session_id}

\* fault: the old key is not removed
KeptHashesAll(sessions, old_hash) == DOMAIN sessions

\* session_manager.py 112-114: the keys that stay
KeptHashes(sessions, old_hash) ==
    IF old_hash # Nothing /\ old_hash[1] \in DOMAIN sessions
    THEN DOMAIN sessions \ {old_hash[1]}
    ELSE DOMAIN sessions

\* session_manager.py 110-119: the index save_session writes back
SaveSessionIndex(sessions, history_hash, session_data, old_hash) ==
    [h \in KeptHashes(sessions, old_hash) \cup {history_hash} |->
        IF h = history_hash THEN session_data ELSE sessions[h]]

\* session_manager.py 185-195: the record create_session stores
NewSessionData(session_id, title, now) ==
    [session_id |-> session_id, title |-> title, created_at |-> now,
     updated_at |-> now, workspace_dir |-> <<"workspaces", session_id>>]

\* session_manager.py 210-221, run without interruption
update_session_hash(sessions, old_hash, new_hash, now) ==
    IF get_session_by_hash(sessions, old_hash) = Nothing THEN sessions
    ELSE SaveSessionIndex(sessions, new_hash,
                          [sessions[old_hash] EXCEPT !.updated_at = now],
                          Some(old_hash))

-----------------------------------------------------------------------------
(* chat_completions: requests of one server process, interleaved at awaits *)

Slots == 1..MaxInFlight
Idle == [phase |-> "idle"]

\* request bodies the clients send
Bodies ==
    { <<U(<<"h">>)>>,
      <<U(<<"y">>)>>,
      <<U(<<"h">>), Turn("assistant", <<"R">>), U(<<"n">>)>>,
      <<Turn("system", <<"<session_id>s1</session_id>", " ", "p">>), U(<<"h">>)>>,
      <<Turn("system", <<"<session_id>s9</session_id>">>), U(<<"h">>)>> }

\* results of run_non_stream and chunks of run_stream
Replies == {<<"R">>, <<"S">>}
Chunks == {<<"R">>, <<"S">>}

TitleLength == 50
\* main.py 77
Title(current_message) ==
    SubSeq(current_message.content, 1,
           IF Len(current_message.content) < TitleLength
           THEN Len(current_message.content) ELSE TitleLength)

\* command_builder.py 139-165: --resume iff a session id is given; the
\* instruction is built from the messages handed over
BuildCommand(messages, session_id, workspace_dir, stream) ==
    [resume |-> IF session_id # "" THEN Some(session_id) ELSE Nothing,
     workspace |-> workspace_dir,
     stream |-> stream,
     messages |-> messages]

\* fault: the full list is sent whether or not the session was found
MessagesToSendFull(is_session_hit, cleaned_messages) == cleaned_messages

\* main.py 87-92: the newest turn for a hit, the full list for a miss
MessagesToSend(is_session_hit, cleaned_messages) ==
    IF is_session_hit
    THEN <<cleaned_messages[Len(cleaned_messages)]>>
    ELSE cleaned_messages

\* main.py 107-111: the think block, made for a new session when the info
\* is enabled and empty otherwise
think_block_of(enabled, is_session_hit) ==
    IF enabled /\ ~is_session_hit THEN <<"<think>">> ELSE <<>>

\* main.py 121-149 and 188: what the client is given, the deltas of the
\* chunks followed by the think block when streaming, the think block
\* followed by the content when not
Delivered(r, content) ==
    IF r.stream THEN content \o r.think_block ELSE r.think_block \o content

\* main.py 87-111: the locals of the request once the command is built
Locals(body, stream, cleaned_messages, history_hash, custom_session_hash, session_id, workspace_dir, is_session_hit, enabled) ==
    [phase |-> "running", body |-> body, stream |-> stream,
     think_block |-> think_block_of(enabled, is_session_hit),
     cleaned_messages |-> cleaned_messages, history_hash |-> history_hash,
     custom_session_hash |-> custom_session_hash, session_id |-> session_id,
     is_session_hit |-> is_session_hit,
     cmd |-> BuildCommand(MessagesToSend(is_session_hit, cleaned_messages),
                          session_id, workspace_dir, stream),
     full_content |-> <<>>]

\* what the last step was and the text it delivered
Outcome(op, content) == [op |-> op, content |-> content]

ReqInit ==
    /\ index = <<>>
    /\ created = 0
    /\ clock = 0
    /\ reqs = [s \in Slots |-> Idle]
    /\ received = 0
    /\ completed = {}
    /\ exchanged = [session_id \in {SessionIds[i] : i \in DOMAIN SessionIds} |-> <<>>]
    /\ last = Outcome("init", <<>>)

\* main.py 44-102: from the arrival of the request to the built command
Receive(s, body, stream, enabled) ==
    /\ UNCHANGED <<svars, lvars, nvars, ovars>>
    /\ reqs[s].phase = "idle"
    /\ \A t \in Slots : t < s => reqs[t].phase # "idle"  \* slots are interchangeable
    /\ received < MaxRequests
    /\ received' = received + 1
    /\ last' = Outcome("receive", <<>>)
    /\ LET ex == extract_workspace_from_messages(body)
           cleaned_messages == ex.cleaned
           history_messages == SubSeq(cleaned_messages, 1, Len(cleaned_messages) - 1)
           current_message == cleaned_messages[Len(cleaned_messages)]
           history_hash == calculate_history_hash(history_messages)
           session == get_session_by_hash(index, history_hash)
           custom == IF ex.session_id = Nothing THEN {}
                     ELSE HashesOfSessionId(index, ex.session_id[1])
       IN
       \/ \* 59-66: the tag names a session of the index
          /\ custom # {}
          /\ \E h \in custom :
               LET r == Locals(body, stream, cleaned_messages, history_hash, Some(h),
                               ex.session_id[1], index[h].workspace_dir, TRUE, enabled)
               IN reqs' = [reqs EXCEPT ![s] = r]
          /\ UNCHANGED <<index, created, clock, completed, exchanged>>
       \/ \* 71-75: session hit
          /\ custom = {}
          /\ session # Nothing
          /\ LET r == Locals(body, stream, cleaned_messages, history_hash, Nothing,
                             session[1].session_id, session[1].workspace_dir, TRUE, enabled)
             IN reqs' = [reqs EXCEPT ![s] = r]
          /\ UNCHANGED <<index, created, clock, completed, exchanged>>
       \/ \* 76-84: session miss, create-chat returns a new id
          /\ custom = {}
          /\ session = Nothing
          /\ created < Len(SessionIds)
          /\ LET session_id == SessionIds[created + 1]
                 data == NewSessionData(session_id, Title(current_message), clock + 1)
                 r == Locals(body, stream, cleaned_messages, history_hash, Nothing,
                             session_id, data.workspace_dir, FALSE, enabled)
             IN /\ index' = SaveSessionIndex(index, history_hash, data, Nothing)
                /\ reqs' = [reqs EXCEPT ![s] = r]
          /\ created' = created + 1
          /\ clock' = clock + 1
          /\ UNCHANGED <<completed, exchanged>>

\* main.py 76-79, 210-212, session_manager.py 199-205: a miss whose
\* create-chat fails is answered with an error and leaves no trace
ReceiveCreateFails(s, body) ==
    /\ UNCHANGED <<svars, lvars, nvars, ovars>>
    /\ reqs[s].phase = "idle"
    /\ \A t \in Slots : t < s => reqs[t].phase # "idle"  \* slots are interchangeable
    /\ received < MaxRequests
    /\ received' = received + 1
    /\ LET ex == extract_workspace_from_messages(body)
           history_hash == calculate_history_hash(
                               SubSeq(ex.cleaned, 1, Len(ex.cleaned) - 1))
       IN /\ IF ex.session_id = Nothing THEN TRUE
             ELSE HashesOfSessionId(index, ex.session_id[1]) = {}
          /\ get_session_by_hash(index, history_hash) = Nothing
    /\ last' = Outcome("create_failed", <<>>)
    /\ UNCHANGED <<index, created, clock, reqs, completed, exchanged>>

\* main.py 171-175 and 191-194: the fingerprint moves once the reply is known
Migrate(r, content) ==
    update_session_hash(
        index,
        IF r.custom_session_hash # Nothing THEN r.custom_session_hash[1]
        ELSE r.history_hash,
        calculate_history_hash(r.cleaned_messages \o <<Turn("assistant", content)>>),
        clock + 1)

Finish(s, content) ==
    /\ UNCHANGED <<svars, lvars, nvars, ovars>>
    /\ last' = Outcome("ok", content)
    /\ index' = Migrate(reqs[s], content)
    /\ clock' = clock + 1
    /\ completed' = completed \cup
          {[body |-> reqs[s].body, session_id |-> reqs[s].session_id]}
    /\ exchanged' = [exchanged EXCEPT ![reqs[s].session_id] =
                        @ \o reqs[s].cmd.messages \o <<Turn("assistant", content)>>]
    /\ reqs' = [reqs EXCEPT ![s] = Idle]
    /\ UNCHANGED <<created, received>>

Abort(s, op) ==
    /\ UNCHANGED <<svars, lvars, nvars, ovars>>
    /\ last' = Outcome(op, <<>>)
    /\ reqs' = [reqs EXCEPT ![s] = Idle]
    /\ UNCHANGED <<index, created, clock, received, completed, exchanged>>

\* main.py 185-208: run_non_stream returns content
NonStreamReturn(s, content) ==
    /\ reqs[s].phase = "running"
    /\ ~reqs[s].stream
    /\ Finish(s, content)

\* executor.py 27-50: what run_non_stream returns when the process exits
\* with a non-zero status and has written no document: the stripped output
FailedOutputs == {<<>>}

\* main.py 185-208, executor.py 46-50: the process fails, run_non_stream
\* returns its output all the same and the handler goes on as after a reply
NonStreamFailedReturn(s, content) ==
    /\ UNCHANGED <<svars, lvars, nvars, ovars>>
    /\ reqs[s].phase = "running"
    /\ ~reqs[s].stream
    /\ last' = Outcome("exit_nonzero", content)
    /\ index' = Migrate(reqs[s], content)
    /\ clock' = clock + 1
    /\ reqs' = [reqs EXCEPT ![s] = Idle]
    /\ UNCHANGED <<created, received, completed, exchanged>>

\* main.py 185, 210-215: run_non_stream raises
NonStreamRaise(s) ==
    /\ reqs[s].phase = "running"
    /\ ~reqs[s].stream
    /\ Abort(s, "error")

\* main.py 121-134: run_stream yields a chunk
StreamChunk(s, chunk) ==
    /\ UNCHANGED <<svars, lvars, nvars, ovars>>
    /\ reqs[s].phase = "running"
    /\ reqs[s].stream
    /\ Len(reqs[s].full_content) < MaxChunks
    /\ reqs' = [reqs EXCEPT ![s].full_content = Append(@, chunk)]
    /\ last' = Outcome("chunk", chunk)
    /\ UNCHANGED <<index, created, clock, received, completed, exchanged>>

\* main.py 136-176: run_stream is exhausted, [DONE] is sent, the hash moves
StreamDone(s) ==
    /\ reqs[s].phase = "running"
    /\ reqs[s].stream
    /\ Finish(s, Flatten(reqs[s].full_content))

\* main.py 178-181: run_stream raises, an error event ends the stream
StreamRaise(s) ==
    /\ reqs[s].phase = "running"
    /\ reqs[s].stream
    /\ Abort(s, "error")

\* the client goes away while the generator is suspended at a yield
StreamCancel(s) ==
    /\ reqs[s].phase = "running"
    /\ reqs[s].stream
    /\ Abort(s, "cancelled")

ReqNext ==
    \E s \in Slots :
        \/ \E body \in Bodies, stream \in BOOLEAN, enabled \in BOOLEAN :
              Receive(s, body, stream, enabled)
        \/ \E body \in Bodies : ReceiveCreateFails(s, body)
        \/ \E content \in Replies : NonStreamReturn(s, content)
        \/ \E content \in FailedOutputs : NonStreamFailedReturn(s, content)
        \/ NonStreamRaise(s)
        \/ \E chunk \in Chunks : StreamChunk(s, chunk)
        \/ StreamDone(s)
        \/ StreamRaise(s)
        \/ StreamCancel(s)

-----------------------------------------------------------------------------
(* SessionManager: load_sessions and save_session step by step, called by  *)
(* several processes that share sessions.json and its lock file            *)

Procs == 1..NProcs

Hashes == { calculate_history_hash(<<>>),
            calculate_history_hash(<<U(<<"h">>), Turn("assistant", <<"R">>)>>) }

LockTimeout == "Service busy (lock timeout)"

IdleProc ==
    [pc |-> "idle", op |-> "none", history_hash |-> Nothing,
     old_hash |-> Nothing, session_data |-> Nothing, data |-> Nothing,
     result |-> "none"]

\* session_manager.py 83-87 and 103-107: json.load of the file; a text that
\* does not decode gives the empty registry
Decode(text) == IF text = Nothing THEN <<>> ELSE text[1]

\* fault: the lock is taken whether or not another process holds it
CanAcquireAlways(p) == TRUE

\* session_manager.py 21, 79, 102: "with self.lock" enters once the lock is free
CanAcquire(p) == lock = 0

\* fault: the Timeout is swallowed and the call goes on without the lock
TimeoutSwallowed(r) ==
    [r EXCEPT !.pc = IF r.pc = "load_acquire" THEN "load_read" ELSE "save_read"]

\* session_manager.py 88-90 and 123-125: Timeout becomes RuntimeError, which
\* no caller in SessionManager catches
TimeoutRaised(r) == [IdleProc EXCEPT !.op = r.op, !.result = LockTimeout]

LockInit ==
    /\ storage = Some(<<>>)
    /\ lock = 0
    /\ proc = [p \in Procs |-> IdleProc]
    /\ started = 0
    /\ live = {}

\* session_manager.py 223-226: get_session_by_hash enters load_sessions
CallGet(p, h) ==
    /\ UNCHANGED <<svars, rvars, nvars, ovars>>
    /\ proc[p].pc = "idle"
    /\ started < MaxCalls
    /\ started' = started + 1
    /\ proc' = [proc EXCEPT ![p] =
            [IdleProc EXCEPT !.pc = "load_acquire", !.op = "get",
                             !.old_hash = Some(h)]]
    /\ UNCHANGED <<storage, lock, live>>

\* session_manager.py 185-195: create_session enters save_session with the
\* record of the session create-chat returned
CallCreate(p, h) ==
    /\ UNCHANGED <<svars, rvars, nvars, ovars>>
    /\ proc[p].pc = "idle"
    /\ started < MaxCalls
    /\ started' = started + 1
    /\ proc' = [proc EXCEPT ![p] =
            [IdleProc EXCEPT !.pc = "save_acquire", !.op = "create",
                             !.history_hash = Some(h),
                             !.session_data =
                                 Some(NewSessionData(SessionIds[started'],
                                                     <<"t">>, started'))]]
    /\ UNCHANGED <<storage, lock, live>>

\* session_manager.py 210-215: update_session_hash enters get_session_by_hash
CallUpdate(p, old_hash, new_hash) ==
    /\ UNCHANGED <<svars, rvars, nvars, ovars>>
    /\ proc[p].pc = "idle"
    /\ started < MaxCalls
    /\ started' = started + 1
    /\ proc' = [proc EXCEPT ![p] =
            [IdleProc EXCEPT !.pc = "load_acquire", !.op = "update",
                             !.old_hash = Some(old_hash),
                             !.history_hash = Some(new_hash)]]
    /\ UNCHANGED <<storage, lock, live>>

\* session_manager.py 79 and 102: the lock is acquired
Acquire(p) ==
    /\ UNCHANGED <<svars, rvars, nvars, ovars>>
    /\ proc[p].pc \in {"load_acquire", "save_acquire"}
    /\ CanAcquire(p)
    /\ lock' = p
    /\ proc' = [proc EXCEPT ![p].pc =
            IF proc[p].pc = "load_acquire" THEN "load_read" ELSE "save_read"]
    /\ UNCHANGED <<storage, started, live>>

\* session_manager.py 21, 88-90, 123-125: another process kept the lock for
\* the 5 seconds of the timeout
Timeout(p) ==
    /\ UNCHANGED <<svars, rvars, nvars, ovars>>
    /\ proc[p].pc \in {"load_acquire", "save_acquire"}
    /\ lock \notin {0, p}
    /\ proc' = [proc EXCEPT ![p] = TimeoutRaised(proc[p])]
    /\ UNCHANGED <<storage, lock, started, live>>

\* session_manager.py 80-87 then 223-226 or 214-221: the file is read, the
\* lock released, and the caller looks the fingerprint up
LoadRead(p) ==
    /\ UNCHANGED <<svars, rvars, nvars, ovars>>
    /\ proc[p].pc = "load_read"
    /\ lock' = 0
    /\ LET r == proc[p]
           session == get_session_by_hash(Decode(storage), r.old_hash[1])
       IN proc' = [proc EXCEPT ![p] =
              IF r.op = "get"
              THEN [IdleProc EXCEPT !.op = "get", !.session_data = session,
                                    !.result = "ok"]
              ELSE IF session = Nothing
              THEN [IdleProc EXCEPT !.op = "update", !.result = "not_found"]
              ELSE [r EXCEPT !.pc = "save_acquire",
                             !.session_data =
                                 Some([session[1] EXCEPT !.updated_at = started])]]
    /\ UNCHANGED <<storage, started, live>>

\* session_manager.py 103-107: save_session reloads the file inside the lock
SaveRead(p) ==
    /\ UNCHANGED <<svars, rvars, nvars, ovars>>
    /\ proc[p].pc = "save_read"
    /\ proc' = [proc EXCEPT ![p].pc = "save_open",
                            ![p].data = Some(Decode(storage))]
    /\ UNCHANGED <<storage, lock, started, live>>

\* session_manager.py 121: open(storage_path, "w") truncates the file
SaveOpen(p) ==
    /\ UNCHANGED <<svars, rvars, nvars, ovars>>
    /\ proc[p].pc = "save_open"
    /\ storage' = Nothing
    /\ proc' = [proc EXCEPT ![p].pc = "save_dump"]
    /\ UNCHANGED <<lock, started, live>>

\* session_manager.py 109-122: the document is written and closed, the lock
\* released
SaveDump(p) ==
    /\ UNCHANGED <<svars, rvars, nvars, ovars>>
    /\ proc[p].pc = "save_dump"
    /\ LET r == proc[p]
       IN /\ storage' = Some(SaveSessionIndex(r.data[1], r.history_hash[1],
                                              r.session_data[1], r.old_hash))
          /\ live' = (IF r.op = "update" THEN live \ {r.old_hash[1]} ELSE live)
                        \cup {r.history_hash[1]}
          /\ proc' = [proc EXCEPT ![p] =
                 [IdleProc EXCEPT !.op = r.op, !.result = "ok"]]
    /\ lock' = 0
    /\ UNCHANGED started

\* the process is killed inside a call; the operating system drops its lock
Crash(p) ==
    /\ UNCHANGED <<svars, rvars, nvars, ovars>>
    /\ proc[p].pc \notin {"idle", "crashed"}
    /\ proc' = [proc EXCEPT ![p].pc = "crashed"]
    /\ lock' = IF lock = p THEN 0 ELSE lock
    /\ UNCHANGED <<storage, started, live>>

LockNext ==
    \/ \E p \in Procs, h \in Hashes : CallGet(p, h)
    \/ \E p \in Procs, h \in Hashes : CallCreate(p, h)
    \/ \E p \in Procs, old_hash \in Hashes, new_hash \in Hashes :
          CallUpdate(p, old_hash, new_hash)
    \/ \E p \in Procs : Acquire(p)
    \/ \E p \in Procs : Timeout(p)
    \/ \E p \in Procs : LoadRead(p)
    \/ \E p \in Procs : SaveRead(p)
    \/ \E p \in Procs : SaveOpen(p)
    \/ \E p \in Procs : SaveDump(p)

CrashNext ==
    \/ LockNext
    \/ \E p \in Procs : Crash(p)

-----------------------------------------------------------------------------
(* Executor.run_non_stream *)

\* longest stdout the process writes, and longest chunk one read returns
MaxBuffer == 3
MaxChunkLen == 2

\* executor.py 15: default of the timeout parameter, in seconds
DefaultTimeout == 300

\* the bytes of stdout: "{" and "}" open and close a JSON object, "r" is the
\* member "result": "x", "1" a digit, "t" a letter, " " white space, and
\* "b1" "b2" the two bytes of one UTF-8 encoded character
Bytes == {"{", "r", "}", "1", "t", " ", "b1", "b2"}

\* bytes.decode(errors='replace'): a well-formed pair is one character, any
\* other "b1" or "b2" becomes U+FFFD
RECURSIVE DecodeReplace(_)
DecodeReplace(b) ==
    IF b = <<>> THEN <<>>
    ELSE IF b[1] = "b1" /\ Len(b) >= 2 /\ b[2] = "b2"
         THEN <<"e_acute">> \o DecodeReplace(SubSeq(b, 3, Len(b)))
    ELSE IF b[1] \in {"b1", "b2"} THEN <<"U+FFFD">> \o DecodeReplace(Tail(b))
    ELSE <<b[1]>> \o DecodeReplace(Tail(b))

\* bytes.decode() raises UnicodeDecodeError exactly where errors='replace'
\* would substitute
Utf8Ok(b) == \A i \in 1..Len(DecodeReplace(b)) : DecodeReplace(b)[i] # "U+FFFD"

\* the text without its white space
Squeeze(t) == SelectSeq(t, LAMBDA c : c # " ")

\* json.loads(stdout_buffer.decode()): white space is allowed around the
\* document and between the tokens of an object; a run of digits is a
\* document too, one that is a number and not an object
JsonLoads(b) ==
    LET text == DecodeReplace(b) IN
    IF ~ Utf8Ok(b) THEN [kind |-> "invalid", result |-> Nothing]
    ELSE IF Squeeze(text) = <<"{", "}">> THEN [kind |-> "object", result |-> Nothing]
    ELSE IF Squeeze(text) = <<"{", "r", "}">> THEN [kind |-> "object", result |-> Some(<<"x">>)]
    ELSE IF Strip(text) # <<>> /\ \A i \in 1..Len(Strip(text)) : Strip(text)[i] = "1"
         THEN [kind |-> "number", result |-> Nothing]
    ELSE [kind |-> "invalid", result |-> Nothing]

\* data.get("result", "") of a decoded object
GetResult(data) == IF data.result = Nothing THEN <<>> ELSE data.result[1]

NoOutcome == [kind |-> "none", exc |-> "", msg |-> "", secs |-> 0, value |-> <<>>]
Returned(v) == [kind |-> "return", exc |-> "", msg |-> "", secs |-> 0, value |-> v]
Raised(e, m, s) == [kind |-> "raise", exc |-> e, msg |-> m, secs |-> s, value |-> <<>>]

\* executor.py 54: the error of an expired timeout
TimeoutError(timeout) == Raised("RuntimeError", "CLI execution timed out after", timeout)

\* fault: the finally block never finds a process to stop
NeedsCleanupNever(rc) == FALSE
\* executor.py 57: the finally block acts on a process that has not exited
NeedsCleanup(rc) == rc = Nothing

\* exit codes the process can end with: its own, or the negated number of
\* the signal that stopped it
ExitCodes(sent) ==
    IF \E i \in 1..Len(sent) : sent[i] = "kill" THEN {0 - 9}
    ELSE IF sent # <<>> THEN {0, 1, 0 - 15}
    ELSE {0, 1}

RECURSIVE read_until_json(_, _)
\* executor.py 27-47: the read loop over the chunks the reads return, from
\* the bytes accumulated so far to its return value or its exception
read_until_json(buffer, chunks) ==
    IF chunks = <<>> THEN Returned(Strip(DecodeReplace(buffer)))
    ELSE LET data == JsonLoads(buffer \o Head(chunks)) IN
         CASE data.kind = "object" -> Returned(GetResult(data))
           [] data.kind = "number" -> Raised("AttributeError", "", 0)
           [] OTHER -> read_until_json(buffer \o Head(chunks), Tail(chunks))

\* executor.py 17-25: the process is spawned, nothing is read yet
NonStreamInit ==
    /\ stdout_buffer = <<>>
    /\ returncode = Nothing
    /\ signals = <<>>
    /\ waited = FALSE
    /\ npc = "reading"
    /\ outcome = NoOutcome

\* executor.py 31-45: one read returns a chunk, the buffer is decoded
ReadChunk ==
    /\ UNCHANGED <<svars, rvars, lvars, ovars>>
    /\ npc = "reading"
    /\ \E n \in 1..MaxChunkLen : \E chunk \in [1..n -> Bytes] :
        /\ Len(stdout_buffer) + n <= MaxBuffer
        /\ stdout_buffer' = stdout_buffer \o chunk
        /\ LET data == JsonLoads(stdout_buffer') IN
            CASE data.kind = "object" ->
                  /\ outcome' = Returned(GetResult(data))
                  /\ npc' = "finally"
              [] data.kind = "number" ->
                  \* int has no attribute get; line 43 does not catch it
                  /\ outcome' = Raised("AttributeError", "", 0)
                  /\ npc' = "finally"
              [] OTHER ->
                  UNCHANGED <<outcome, npc>>
    /\ UNCHANGED <<returncode, signals, waited>>

\* executor.py 32-35, 47: stdout is closed, the raw output is returned
EndOfFile ==
    /\ UNCHANGED <<svars, rvars, lvars, ovars>>
    /\ npc = "reading"
    /\ outcome' = Returned(Strip(DecodeReplace(stdout_buffer)))
    /\ npc' = "finally"
    /\ UNCHANGED <<stdout_buffer, returncode, signals, waited>>

\* executor.py 50-54: the timeout expires while the read loop is waiting
TimeoutExpires ==
    /\ UNCHANGED <<svars, rvars, lvars, ovars>>
    /\ npc = "reading"
    /\ outcome' = TimeoutError(DefaultTimeout)
    /\ npc' = "finally"
    /\ UNCHANGED <<stdout_buffer, returncode, signals, waited>>

\* the process exits and the event loop records its exit code
ProcessExits ==
    /\ UNCHANGED <<svars, rvars, lvars, ovars>>
    /\ returncode = Nothing
    /\ \E c \in ExitCodes(signals) : returncode' = Some(c)
    /\ UNCHANGED <<stdout_buffer, signals, waited, npc, outcome>>

\* executor.py 55-58: the finally block
Finally ==
    /\ UNCHANGED <<svars, rvars, lvars, ovars>>
    /\ npc = "finally"
    /\ IF NeedsCleanup(returncode)
       THEN /\ signals' = Append(signals, "terminate")
            /\ npc' = "grace"
       ELSE /\ npc' = "done"
            /\ UNCHANGED signals
    /\ UNCHANGED <<stdout_buffer, returncode, waited, outcome>>

\* executor.py 59-60: the process exits within the grace period
GraceWait ==
    /\ UNCHANGED <<svars, rvars, lvars, ovars>>
    /\ npc = "grace"
    /\ returncode # Nothing
    /\ waited' = TRUE
    /\ npc' = "done"
    /\ UNCHANGED <<stdout_buffer, returncode, signals, outcome>>

\* executor.py 61-62: the grace period expires, the process is killed
GraceExpires ==
    /\ UNCHANGED <<svars, rvars, lvars, ovars>>
    /\ npc = "grace"
    /\ returncode = Nothing
    /\ signals' = Append(signals, "kill")
    /\ npc' = "killed"
    /\ UNCHANGED <<stdout_buffer, returncode, waited, outcome>>

\* executor.py 63: the killed process is waited for
KillWait ==
    /\ UNCHANGED <<svars, rvars, lvars, ovars>>
    /\ npc = "killed"
    /\ returncode # Nothing
    /\ waited' = TRUE
    /\ npc' = "done"
    /\ UNCHANGED <<stdout_buffer, returncode, signals, outcome>>

NonStreamNext ==
    \/ ReadChunk
    \/ EndOfFile
    \/ TimeoutExpires
    \/ ProcessExits
    \/ Finally
    \/ GraceWait
    \/ GraceExpires
    \/ KillWait

-----------------------------------------------------------------------------
(* CommandBuilder: the instruction built from the messages *)

\* longest message list handed to a builder
MaxMessages == 2

\* temp_file_handler.py 15, relay.py 126
CONTENT_SIZE_THRESHOLD == 4000

\* A text is given by its length in characters and by the file name its
\* first line spells, if it does: the routing reads nothing else of it.
\* Texts carry no white space at their ends, so that strip() keeps them,
\* and do not start with a slash command.
TextLengths == {5, CONTENT_SIZE_THRESHOLD - 1, CONTENT_SIZE_THRESHOLD, CONTENT_SIZE_THRESHOLD + 1}
Texts == [len : TextLengths, name : {Nothing, Some("data.json")}]
Roles == {"system", "user", "assistant"}
BuilderMessages == [role : Roles, content : Texts]
MessageLists == UNION {[1..n -> BuilderMessages] : n \in 1..MaxMessages}

\* temp_file_handler.py 102-123: the file name of the first line and the
\* text after it (the name and its line break are 10 characters)
extract_filename_and_content(text) ==
    IF text.name = Nothing THEN [filename_hint |-> Nothing, actual_content |-> text]
    ELSE [filename_hint |-> text.name,
          actual_content |-> [len |-> text.len - 10, name |-> Nothing]]

\* temp_file_handler.py 18-47: the path is derived from the digest of the
\* content and from the extension of the hint
save_content_to_temp_file(content, filename_hint) ==
    [dir |-> "CURSOR_CLI_PROXY_TMP", content |-> content,
     ext |-> IF filename_hint = Nothing THEN ".txt" ELSE ".json"]

Inline(text) == [kind |-> "inline", text |-> text, hint |-> Nothing, path |-> Nothing]
Reference(hint, path) == [kind |-> "ref", text |-> Nothing, hint |-> hint, path |-> Some(path)]

\* relay.py 260-279, command_builder.py 26-45
process_content_part(text) ==
    IF text.len > CONTENT_SIZE_THRESHOLD
    THEN LET ex == extract_filename_and_content(text)
         IN Reference(ex.filename_hint,
                      save_content_to_temp_file(ex.actual_content, ex.filename_hint))
    ELSE Inline(text)

\* the files one call of process_content_part writes
FilesOf(part) == IF part.kind = "ref" THEN {part.path[1]} ELSE {}

\* relay.py 296-331, command_builder.py 62-95, for a content that is a string
get_processed_content(msg) == process_content_part(msg.content)

\* command_builder.py 97-107, for a content that is a string
get_raw_content(msg) == Inline(msg.content)

\* str.upper() of a role
Upper(role) ==
    CASE role = "system" -> "SYSTEM"
      [] role = "user" -> "USER"
      [] role = "assistant" -> "ASSISTANT"

\* fault: only the assistant turns are labelled
RolePrefixOwn(messages, msg) ==
    IF msg.role = "assistant" THEN Some(Upper(msg.role)) ELSE Nothing

\* relay.py 335, 349-350, command_builder.py 113, 130-131: the upper-cased
\* role is put in front when the list has an assistant turn
RolePrefix(messages, msg) ==
    IF \E i \in 1..Len(messages) : messages[i].role = "assistant"
    THEN Some(Upper(msg.role)) ELSE Nothing

\* relay.py 333-355: every message goes through _get_processed_content
relay_merge_messages(messages) ==
    [i \in 1..Len(messages) |->
        [prefix |-> RolePrefix(messages, messages[i]),
         body |-> get_processed_content(messages[i])]]

\* command_builder.py 109-137: only user messages are processed
merge_messages(messages) ==
    [i \in 1..Len(messages) |->
        [prefix |-> RolePrefix(messages, messages[i]),
         body |-> IF messages[i].role = "user"
                  THEN get_processed_content(messages[i])
                  ELSE get_raw_content(messages[i])]]

BlankLine == "\n\n"

\* relay.py 354, command_builder.py 135: "\n\n".join(merged)
JoinBlank(merged) ==
    [k \in 1..(IF merged = <<>> THEN 0 ELSE 2 * Len(merged) - 1) |->
        IF k % 2 = 1 THEN merged[(k + 1) \div 2] ELSE BlankLine]

\* the files the parts of an instruction stand for
PromptFiles(prompt) == UNION {FilesOf(prompt[i].body) : i \in 1..Len(prompt)}

BuildInit ==
    /\ bclass = "none"
    /\ bmessages = <<>>
    /\ bprompt = <<>>
    /\ bfiles = {}

\* relay.py 251-383: CommandBuilder(messages=...).build() of the class that
\* main.py imports (main.py 6, 95-102)
RelayBuild(messages) ==
    /\ UNCHANGED notb
    /\ bclass' = "relay"
    /\ bmessages' = messages
    /\ bprompt' = relay_merge_messages(messages)
    /\ bfiles' = bfiles \cup PromptFiles(bprompt')

\* command_builder.py 17-166: the same call on the class of command_builder.py
Build(messages) ==
    /\ UNCHANGED notb
    /\ bclass' = "command_builder"
    /\ bmessages' = messages
    /\ bprompt' = merge_messages(messages)
    /\ bfiles' = bfiles \cup PromptFiles(bprompt')

BuildNext ==
    \/ \E messages \in MessageLists : RelayBuild(messages)
    \/ \E messages \in MessageLists : Build(messages)

-----------------------------------------------------------------------------
(* ModelRegistry: the ids shown at the API and the ids of the CLI *)

\* longest model id, in pieces
MaxIdLen == 3

\* A model id is a sequence of pieces: the prefixes the code tests for and
\* "x" for any other run of characters.
IdPieces == {"claude-", "opus-", "sonnet-", "x"}
ModelIds == UNION {[1..n -> IdPieces] : n \in 1..MaxIdLen}

\* model_registry.py 21
CLAUDE_PREFIXES == {"opus-", "sonnet-"}

\* str.startswith for one prefix
StartsWith(id, prefix) == id # <<>> /\ id[1] = prefix

\* model_registry.py 26-31
to_display_id(model_id) ==
    IF (\E p \in CLAUDE_PREFIXES : StartsWith(model_id, p)) /\ ~ StartsWith(model_id, "claude-")
    THEN <<"claude-">> \o model_id
    ELSE model_id

\* model_registry.py 33-38
to_cli_id(model_id) ==
    IF StartsWith(model_id, "claude-") THEN Tail(model_id) ELSE model_id

RegistryInit ==
    /\ gmodel = <<>>
    /\ gdisplay = <<>>
    /\ gcli = Nothing

\* model_registry.py 195: get_models shows the id of a model of the CLI
ToDisplay(model_id) ==
    /\ UNCHANGED notg
    /\ gmodel' = model_id
    /\ gdisplay' = to_display_id(model_id)
    /\ gcli' = Nothing

\* model_registry.py 33-38: the id shown is turned back into the id of the CLI
ToCli ==
    /\ UNCHANGED notg
    /\ gmodel # <<>>
    /\ gcli = Nothing
    /\ gcli' = Some(to_cli_id(gdisplay))
    /\ UNCHANGED <<gmodel, gdisplay>>

RegistryNext ==
    \/ \E model_id \in ModelIds : ToDisplay(model_id)
    \/ ToCli

-----------------------------------------------------------------------------
(* SessionManager.calculate_history_hash on the objects it is handed *)

\* longest turn list handed to calculate_history_hash
MaxTurns == 2

\* A dict is the sequence of its <<key, value>> pairs in insertion order.
Get(d, k) ==
    LET I == {i \in DOMAIN d : d[i][1] = k}
    IN IF I = {} THEN None ELSE d[CHOOSE i \in I : TRUE][2]

\* a content is a string or a list of parts
StrContent(t) == [kind |-> "str", s |-> t, parts |-> <<>>]
ListContent(ps) == [kind |-> "list", s |-> "", parts |-> ps]

\* models.py 7-9, 22-24: a Message object and its text part
TextContentPart(t) == [type |-> "text", text |-> t]
MessageObject(role, content) == [repr |-> "Message", d |-> <<>>, obj |-> <<role, content>>]
DictTurn(d) == [repr |-> "dict", d |-> d, obj |-> <<>>]

\* models.py 7-24: model_dump() lists the fields in the order of declaration
model_dump(msg) ==
    LET content == msg.obj[2] IN
    << <<"role", msg.obj[1]>>,
       <<"content",
         IF content.kind = "str" THEN content
         ELSE ListContent([i \in 1..Len(content.parts) |->
                  << <<"type", content.parts[i].type>>,
                     <<"text", content.parts[i].text>> >>])>> >>

\* the turns fed in: a role and a content, which is the string "hi" or,
\* for a user turn, one text part "a"
TurnKinds == {<<"user", "str">>, <<"assistant", "str">>, <<"user", "list">>}

\* a turn handed over as a dict: content before role, a further field, and
\* the text of the part before its type
AsDict(role, shape) ==
    DictTurn(<< <<"content",
                  IF shape = "str" THEN StrContent("hi")
                  ELSE ListContent(<< << <<"text", "a">>, <<"type", "text">> >> >>)>>,
                <<"role", role>>,
                <<"name", "n">> >>)

\* the same turn handed over as a Message
AsMessage(role, shape) ==
    MessageObject(role, IF shape = "str" THEN StrContent("hi")
                        ELSE ListContent(<<TextContentPart("a")>>))

RawTurns ==
    {AsDict(k[1], k[2]) : k \in TurnKinds} \cup {AsMessage(k[1], k[2]) : k \in TurnKinds}
RawLists == UNION {[1..n -> RawTurns] : n \in 0..MaxTurns}

\* session_manager.py 50-59: the dict of a turn
TurnDict(msg) == IF msg.repr = "Message" THEN model_dump(msg) ELSE msg.d

\* session_manager.py 61-64
clean_msg(d) == << <<"role", Get(d, "role")>>, <<"content", Get(d, "content")>> >>

\* the keys in the order of str comparison
KeyOrder == <<"content", "name", "role", "text", "type">>

\* fault: json.dumps without sort_keys keeps the insertion order
InsertionOrder(d) == d

\* session_manager.py 70: sort_keys=True
SortKeys(d) ==
    LET ks == SelectSeq(KeyOrder, LAMBDA k : \E i \in DOMAIN d : d[i][1] = k)
    IN [i \in 1..Len(ks) |-> <<ks[i], Get(d, ks[i])>>]

RECURSIVE JoinWith(_, _)
\* str.join on pieces that are token sequences
JoinWith(pieces, sep) ==
    IF pieces = <<>> THEN <<>>
    ELSE IF Len(pieces) = 1 THEN pieces[1]
    ELSE pieces[1] \o <<sep>> \o JoinWith(Tail(pieces), sep)

\* a JSON string
Quoted(t) == <<"\"", t, "\"">>

\* session_manager.py 68-72: json.dumps of a part, of a content, of a turn
\* and of the list, separators "," and ":"
DumpPart(p) ==
    LET o == SortKeys(p)
    IN <<"{">> \o JoinWith([i \in 1..Len(o) |-> Quoted(o[i][1]) \o <<":">> \o Quoted(o[i][2])], ",") \o <<"}">>

DumpContent(c) ==
    IF c.kind = "str" THEN Quoted(c.s)
    ELSE <<"[">> \o JoinWith([i \in 1..Len(c.parts) |-> DumpPart(c.parts[i])], ",") \o <<"]">>

DumpTurn(d) ==
    LET o == SortKeys(d)
    IN <<"{">> \o JoinWith([i \in 1..Len(o) |->
                     Quoted(o[i][1]) \o <<":">> \o
                     (IF o[i][1] = "content" THEN DumpContent(o[i][2]) ELSE Quoted(o[i][2]))], ",")
       \o <<"}">>

\* session_manager.py 41-74: the canonical JSON text; the SHA-256 digest of
\* it is represented by the text, the digest being taken collision free
history_hash_of(messages) ==
    <<"[">> \o JoinWith([i \in 1..Len(messages) |-> DumpTurn(clean_msg(TurnDict(messages[i])))], ",")
    \o <<"]">>

\* the (role, content) pair of a turn, the content being a string or the
\* list of the texts of its parts
PartTexts(c) == [i \in 1..Len(c.parts) |-> Get(c.parts[i], "text")]
PairOf(msg) ==
    LET d == TurnDict(msg)
        c == Get(d, "content")
    IN <<Get(d, "role"), c.kind, IF c.kind = "str" THEN <<c.s>> ELSE PartTexts(c)>>
PairsOf(messages) == [i \in 1..Len(messages) |-> PairOf(messages[i])]

HashInit ==
    /\ hprev = Nothing
    /\ hcur = Nothing

\* session_manager.py 41-74: one call; the call before is remembered
CalculateHash(messages) ==
    /\ UNCHANGED noth
    /\ hprev' = hcur
    /\ hcur' = Some([pairs |-> PairsOf(messages),
                     reprs |-> {messages[i].repr : i \in 1..Len(messages)},
                     hash |-> history_hash_of(messages)])

\* main.py 111, 188: a reply and the same reply after the think block, as
\* the client sends them back in an assistant turn
BareReply == "Hello there."
ThinkReply == "<think>\nfoo: bar\n</think>\n\nHello there."
ReplyLists ==
    {<<MessageObject("assistant", StrContent(t))>> : t \in {BareReply, ThinkReply}}

\* session_manager.py 41-74: one call on a list that ends with a reply
CalculateReplyHash(messages) ==
    /\ UNCHANGED noth
    /\ hprev' = hcur
    /\ hcur' = Some([pairs |-> PairsOf(messages),
                     reprs |-> {"Message"},
                     hash |-> history_hash_of(messages)])

HashNext ==
    \/ \E messages \in RawLists : CalculateHash(messages)
    \/ \E messages \in ReplyLists : CalculateReplyHash(messages)

-----------------------------------------------------------------------------
(* SessionManager.create_session and the working directories *)

\* calls of create_session in a run
MaxCreates == 3

\* session_manager.py 150: the uuid4 of the temporary directory of each call
TempIds == <<"t1", "t2", "t3", "t4", "t5">>

CreateHashes == {<<"h1">>, <<"h2">>}
CustomWorkspaces == {Nothing, Some(<<"custom", "w">>)}

\* session_manager.py 166, 200, 207: create-chat prints a session id and
\* exits with 0, exits with another status, or the binary is not there
CreateResults == {"exit 0", "non-zero exit", "no binary"}

\* fault: the handler of CalledProcessError leaves the directory
RemovesTempNever(temp_dir, dirs) == FALSE

\* session_manager.py 203: the directory is removed when the call made one
RemovesTemp(temp_dir, dirs) == temp_dir # Nothing /\ temp_dir[1] \in dirs

\* session_manager.py 140-208: the directories, the index and the outcome
\* the n-th call leaves
create_session(dirs, sessions, n, history_hash, custom_workspace, result) ==
    LET temp_dir == IF custom_workspace # Nothing THEN Nothing
                    ELSE Some(<<"temp", TempIds[n]>>)
        workspace_dir == IF custom_workspace # Nothing THEN custom_workspace[1]
                         ELSE temp_dir[1]
        made == dirs \cup {workspace_dir}
        session_id == SessionIds[n]
        final_workspace_dir == <<"workspaces", session_id>>
        session_data == [NewSessionData(session_id, "New Chat", n) EXCEPT
                            !.workspace_dir = IF temp_dir # Nothing
                                              THEN final_workspace_dir
                                              ELSE workspace_dir]
    IN CASE result = "exit 0" ->
              [dirs |-> IF temp_dir # Nothing
                        THEN (made \ {temp_dir[1]}) \cup {final_workspace_dir}
                        ELSE made,
               index |-> SaveSessionIndex(sessions, history_hash, session_data, Nothing),
               outcome |-> <<"return", session_id>>,
               temp_dir |-> temp_dir]
         [] result = "non-zero exit" ->
              [dirs |-> IF RemovesTemp(temp_dir, made) THEN made \ {temp_dir[1]} ELSE made,
               index |-> sessions,
               outcome |-> <<"RuntimeError", "Failed to create session">>,
               temp_dir |-> temp_dir]
         [] OTHER ->
              [dirs |-> made,
               index |-> sessions,
               outcome |-> <<"RuntimeError", "cursor-agent CLI not found">>,
               temp_dir |-> temp_dir]

CreateInit ==
    /\ cdirs = {}
    /\ cindex = << >>
    /\ ccalls = 0
    /\ clast = Nothing

\* one call of create_session
CreateSession(history_hash, custom_workspace, result) ==
    /\ UNCHANGED notc
    /\ ccalls < MaxCreates
    /\ ccalls' = ccalls + 1
    /\ LET after == create_session(cdirs, cindex, ccalls + 1, history_hash,
                                   custom_workspace, result)
       IN /\ cdirs' = after.dirs
          /\ cindex' = after.index
          /\ clast' = Some([result |-> result, outcome |-> after.outcome,
                            temp_dir |-> after.temp_dir, index_before |-> cindex,
                            dirs_before |-> cdirs])

CreateNext ==
    \E history_hash \in CreateHashes, custom_workspace \in CustomWorkspaces, result \in CreateResults :
        CreateSession(history_hash, custom_workspace, result)

-----------------------------------------------------------------------------
(* chat_completions.event_generator: the SSE events of one streaming reply *)

\* chunks run_stream yields in one reply
MaxDeltas == 3

\* main.py 111
ThinkBlock == "<think>"

\* main.py 123-134, 138-149: a chunk with a content delta
DeltaEvent(content) ==
    [ev |-> "chunk", content |-> Some(content), finish_reason |-> Nothing, error |-> Nothing]

\* main.py 152-164: the chunk with finish_reason
FinalEvent ==
    [ev |-> "chunk", content |-> Nothing, finish_reason |-> Some("stop"), error |-> Nothing]

\* main.py 168
DoneEvent ==
    [ev |-> "[DONE]", content |-> Nothing, finish_reason |-> Nothing, error |-> Nothing]

\* main.py 180
ErrorEvent(message) ==
    [ev |-> "error", content |-> Nothing, finish_reason |-> Nothing,
     error |-> Some([message |-> message, type |-> "stream_error"])]

\* executor.py 170-176 and session_manager.py 88-90, 123-128: what the two
\* calls of the generator raise
ExecutionFailed == "CLI execution failed"
StorageFailed == "Service busy (lock timeout)"

\* fault: the exception ends the response without an event
HandleExceptionSilent(events, message) == events

\* main.py 178-181: every Exception is answered with an error event
HandleException(events, message) == Append(events, ErrorEvent(message))

EventInit ==
    /\ epos = "idle"
    /\ ethink = FALSE
    /\ echunks = <<>>
    /\ eevents = <<>>
    /\ eraised = "none"
    /\ emigrated = FALSE

\* main.py 106-120: the think block is due for a new session when the info
\* is enabled; the generator starts and enters run_stream
EventStart(enabled, is_session_hit) ==
    /\ UNCHANGED note
    /\ epos = "idle"
    /\ epos' = "run_stream"
    /\ ethink' = (enabled /\ ~is_session_hit)
    /\ UNCHANGED <<echunks, eevents, eraised, emigrated>>

\* main.py 121-134: run_stream yields a chunk and its delta is yielded
EventChunk(chunk) ==
    /\ UNCHANGED note
    /\ epos = "run_stream"
    /\ Len(echunks) < MaxDeltas
    /\ echunks' = Append(echunks, chunk)
    /\ eevents' = Append(eevents, DeltaEvent(chunk))
    /\ UNCHANGED <<epos, ethink, eraised, emigrated>>

\* main.py 121, 178-181: run_stream raises
RunStreamRaises ==
    /\ UNCHANGED note
    /\ epos = "run_stream"
    /\ eevents' = HandleException(eevents, ExecutionFailed)
    /\ eraised' = "run_stream"
    /\ epos' = "end"
    /\ UNCHANGED <<ethink, echunks, emigrated>>

\* main.py 136-164: run_stream is exhausted; the think block is yielded when
\* it is due, the final chunk when it is not
RunStreamEnds ==
    /\ UNCHANGED note
    /\ epos = "run_stream"
    /\ IF ethink
       THEN /\ eevents' = Append(eevents, DeltaEvent(ThinkBlock))
            /\ epos' = "after_think"
       ELSE /\ eevents' = Append(eevents, FinalEvent)
            /\ epos' = "after_final"
    /\ UNCHANGED <<ethink, echunks, eraised, emigrated>>

\* main.py 151-164: the final chunk after the think block
AfterThink ==
    /\ UNCHANGED note
    /\ epos = "after_think"
    /\ eevents' = Append(eevents, FinalEvent)
    /\ epos' = "after_final"
    /\ UNCHANGED <<ethink, echunks, eraised, emigrated>>

\* main.py 166-168
AfterFinal ==
    /\ UNCHANGED note
    /\ epos = "after_final"
    /\ eevents' = Append(eevents, DoneEvent)
    /\ epos' = "after_done"
    /\ UNCHANGED <<ethink, echunks, eraised, emigrated>>

\* main.py 170-176: update_session_hash returns and the generator ends
AfterDoneMigrates ==
    /\ UNCHANGED note
    /\ epos = "after_done"
    /\ emigrated' = TRUE
    /\ epos' = "end"
    /\ UNCHANGED <<ethink, echunks, eevents, eraised>>

\* main.py 170-181, session_manager.py 88-90, 123-128: update_session_hash
\* raises RuntimeError inside the try block of the generator
AfterDoneRaises ==
    /\ UNCHANGED note
    /\ epos = "after_done"
    /\ eevents' = HandleException(eevents, StorageFailed)
    /\ eraised' = "update_session_hash"
    /\ epos' = "end"
    /\ UNCHANGED <<ethink, echunks, emigrated>>

\* the client goes away while the generator is suspended at a yield
EventClose ==
    /\ UNCHANGED note
    /\ epos \in {"run_stream", "after_think", "after_final", "after_done"}
    /\ eevents # <<>>
    /\ epos' = "closed"
    /\ UNCHANGED <<ethink, echunks, eevents, eraised, emigrated>>

EventNext ==
    \/ \E enabled \in BOOLEAN, is_session_hit \in BOOLEAN : EventStart(enabled, is_session_hit)
    \/ \E chunk \in Chunks : EventChunk(chunk)
    \/ RunStreamRaises
    \/ RunStreamEnds
    \/ AfterThink
    \/ AfterFinal
    \/ AfterDoneMigrates
    \/ AfterDoneRaises
    \/ EventClose

-----------------------------------------------------------------------------
(* Specifications *)

\* the state after construction: no line read, no request received, an
\* empty sessions.json
Init == StreamInit /\ ReqInit /\ LockInit /\ NonStreamInit /\ BuildInit /\ RegistryInit /\ HashInit /\ CreateInit /\ EventInit

\* Executor.run_stream on one stream of stdout lines
StreamSpec == Init /\ [][StreamNext]_vars

\* chat_completions serving requests on one server process
Spec == Init /\ [][ReqNext]_vars

\* SessionManager calls of several processes on one sessions.json
LockSpec == Init /\ [][LockNext]_vars

\* the same, with processes that may be killed at any point of a call
CrashSpec == Init /\ [][CrashNext]_vars

\* Executor.run_non_stream on one process
NonStreamSpec == Init /\ [][NonStreamNext]_vars

\* CommandBuilder.build on one message list after the other
BuildSpec == Init /\ [][BuildNext]_vars

\* the two id transforms of ModelRegistry on one model id after the other
RegistrySpec == Init /\ [][RegistryNext]_vars

\* calculate_history_hash on one turn list after the other
HashSpec == Init /\ [][HashNext]_vars

\* create_session called again and again
CreateSpec == Init /\ [][CreateNext]_vars

\* the event generator of one streaming reply
EventSpec == Init /\ [][EventNext]_vars

-----------------------------------------------------------------------------
(* Claims on Executor.run_stream *)

\* the stream so far consists of timestamped assistant events with non-empty text
AllTimestampedText(ls) ==
    /\ ls # <<>>
    /\ \A i \in 1..Len(ls) :
        /\ ls[i].json = "object"
        /\ ls[i].type = "assistant"
        /\ ls[i].ts
        /\ FullText(ls[i].content) # <<>>

EventTexts(ls) == [i \in 1..Len(ls) |-> FullText(ls[i].content)]

RECURSIVE TextChunks(_)
TextChunks(ts) ==
    IF ts = <<>> THEN <<>> ELSE <<Chunk("text", Head(ts), 0)>> \o TextChunks(Tail(ts))

RECURSIVE KeptTexts(_, _)
\* the texts t_i, i <= n, that differ from t_1 ... t_(i-1) concatenated
KeptTexts(ts, n) ==
    IF n = 0 THEN <<>>
    ELSE KeptTexts(ts, n - 1) \o
         (IF ts[n] # Flatten(SubSeq(ts, 1, n - 1)) THEN <<ts[n]>> ELSE <<>>)

EmittedTexts == [i \in 1..Len(SelectSeq(out, LAMBDA c : c.k = "text")) |->
                    SelectSeq(out, LAMBDA c : c.k = "text")[i].t]

\* C10 (as stated): for a stream of timestamped assistant events with
\* non-empty texts t1..tn the chunks are one separator followed by t1..tn,
\* so the emitted texts concatenate to the concatenation of the event texts.
C10_AllDeltasEmitted ==
    AllTimestampedText(lines) =>
        /\ out = <<Separator>> \o TextChunks(EventTexts(lines))
        /\ Flatten(EmittedTexts) = Flatten(EventTexts(lines))

\* C10 (amended): for such a stream the chunks are one separator followed,
\* in arrival order, by exactly the t_i that differ from the concatenation
\* t_1..t_(i-1) of the texts before them; each emitted chunk is the event's
\* own text, never the running total.
C10_DeltaReconstruction ==
    AllTimestampedText(lines) =>
        out = <<Separator>> \o
              TextChunks(KeptTexts(EventTexts(lines), Len(lines)))

\* three deltas "a", "b", "a" all emitted after the single separator
C10_Witness ==
    /\ AllTimestampedText(lines)
    /\ Len(lines) = 3
    /\ Len(out) = 4
    /\ Flatten(EmittedTexts) = <<"a", "b", "a">>

\* the chunks the i-th consumed line produced
ChunksOf(i) == SubSeq(out, (IF i = 1 THEN 0 ELSE yielded[i - 1]) + 1, yielded[i])

\* a timestamped assistant event that carries text
IsTextEvent(l) ==
    l.json = "object" /\ l.type = "assistant" /\ l.ts /\ FullText(l.content) # <<>>

\* how many times the i-th line emitted the text t
TextEmissions(i, t) ==
    Len(SelectSeq(ChunksOf(i), LAMBDA c : c.k = "text" /\ c.t = t))

\* C11: two consecutive timestamped assistant events that carry the same
\* text emit that text once between them, wherever the pair stands in the
\* stream.
C11_PairEmitsOnce ==
    \A i \in 1..(Len(lines) - 1) :
        (/\ IsTextEvent(lines[i])
         /\ IsTextEvent(lines[i + 1])
         /\ FullText(lines[i].content) = FullText(lines[i + 1].content))
        => TextEmissions(i, FullText(lines[i].content))
             + TextEmissions(i + 1, FullText(lines[i].content)) = 1

IsStarted(l) == l.json = "object" /\ l.type = "tool_call" /\ l.subtype = "started"
IsCompleted(l) == l.json = "object" /\ l.type = "tool_call" /\ l.subtype = "completed"

\* the number of started events among the first i lines
Ordinal(i) == Cardinality({j \in 1..i : IsStarted(lines[j])})

\* the started events before line i that carried the call_id of line i
MatchOf(i) ==
    {j \in 1..(i - 1) : /\ IsStarted(lines[j])
                        /\ lines[i].call_id # None
                        /\ lines[j].call_id = lines[i].call_id}

\* the ordinal of the newest started event with the call_id of line i, 0
\* when there is none
MatchedOrdinal(i) ==
    IF MatchOf(i) = {} THEN 0
    ELSE Ordinal(CHOOSE j \in MatchOf(i) : \A k \in MatchOf(i) : k <= j)

\* C12: the counter equals the number of started events read; the k-th
\* started event is labelled k; a completed event is labelled with the
\* ordinal of the started event that carried its call_id, in whatever order
\* completions arrive, and carries no ordinal when no started event matches.
C12_ToolPairing ==
    /\ tool_count = Ordinal(Len(lines))
    /\ \A i \in 1..Len(lines) :
          /\ IsStarted(lines[i]) =>
                /\ \A c \in 1..Len(ChunksOf(i)) :
                      ChunksOf(i)[c].k = "tool_start" => ChunksOf(i)[c].n = Ordinal(i)
                /\ lines[i].key # None =>
                      \E c \in 1..Len(ChunksOf(i)) : ChunksOf(i)[c].k = "tool_start"
          /\ IsCompleted(lines[i]) =>
                /\ \A c \in 1..Len(ChunksOf(i)) :
                      ChunksOf(i)[c].k = "tool_result"
                          => ChunksOf(i)[c].n = MatchedOrdinal(i)
                /\ (lines[i].key # None /\ lines[i].result # None) =>
                      \E c \in 1..Len(ChunksOf(i)) : ChunksOf(i)[c].k = "tool_result"

\* started(A), started(B), completed(A): the completion of A arrives after B
\* has started and is labelled 1
C12_Witness ==
    /\ Len(lines) = 3
    /\ IsStarted(lines[1]) /\ lines[1].call_id = "A"
    /\ IsStarted(lines[2]) /\ lines[2].call_id = "B"
    /\ IsCompleted(lines[3]) /\ lines[3].call_id = "A"
    /\ out = <<Separator, Chunk("tool_start", <<>>, 1),
               Chunk("tool_start", <<>>, 2), Chunk("tool_result", <<>>, 1)>>

IsResult(l) == l.json = "object" /\ l.type = "result"

\* C13: run_stream fails on a non-zero exit code only when the stream
\* delivered no result event.
C13_ResultExcusesExit ==
    st = "failed" => ~ \E i \in 1..Len(lines) : IsResult(lines[i])

\* C14: a line that does not parse as a JSON record is emitted as it is,
\* leaves last_type, last_full_text, tool_count and the call_id map as they
\* were, and the loop goes on reading.
C14_MalformedPassThrough ==
    [][(/\ Len(lines') = Len(lines) + 1
        /\ lines'[Len(lines')].json # "object")
       => /\ out' = Append(out, Chunk("raw", <<>>, 0))
          /\ UNCHANGED <<last_type, last_full_text, tool_count,
                          call_id_to_tool_number>>
          /\ st' = "reading"]_vars

\* C15: a result event is the last line read, it produced the type-change
\* separator and nothing else, the loop has ended, and no chunk was yielded
\* after it.
C15_ResultTerminal ==
    \A i \in 1..Len(lines) :
        IsResult(lines[i]) =>
            /\ i = Len(lines)
            /\ st # "reading"
            /\ ChunksOf(i) = <<Separator>>
            /\ Len(out) = yielded[i]

\* an assistant text, then a result event, and the generator has returned
C15_Witness ==
    /\ Len(lines) = 2
    /\ IsTextEvent(lines[1])
    /\ IsResult(lines[2])
    /\ st = "returned"
    /\ Len(out) = 3
    /\ out[3] = Separator

-----------------------------------------------------------------------------
(* Claims on Executor.run_non_stream and on the process handle *)

\* the accumulated bytes are one complete JSON document
IsJsonDocument(b) == JsonLoads(b).kind # "invalid"

\* the 'result' field of the document, the empty string when it has none
ResultField(b) == GetResult(JsonLoads(b))

\* the call has left its read loop because the timeout expired
TimedOut == outcome = TimeoutError(DefaultTimeout)

\* C16: at the very read after which the accumulated bytes decode as one
\* complete JSON document, whatever the process has done since, the read
\* loop ends and run_non_stream returns the document's 'result' field, or
\* the empty string when the document has no such field.
C16_EarlyCompletion ==
    [][(npc = "reading" /\ stdout_buffer' # stdout_buffer /\ IsJsonDocument(stdout_buffer'))
        => (npc' = "finally" /\ outcome' = Returned(ResultField(stdout_buffer')))]_vars

\* C17: whatever the process wrote to stdout, a call whose read loop ended
\* before the timeout has returned a value: the form of the output never
\* makes it raise.
C17_NeverFailsOnForm ==
    (npc # "reading" /\ ~ TimedOut) => outcome.kind = "return"

\* C18: when the process has exited on its own with a non-zero code and the
\* output never decoded as a complete document, a call that was not timed
\* out ends with the execution error, not with a value.
C18_NonZeroExitRaises ==
    (/\ npc = "done"
     /\ ~ TimedOut
     /\ signals = <<>>
     /\ returncode = Some(1)
     /\ ~ IsJsonDocument(stdout_buffer))
    => (outcome.kind = "raise" /\ outcome.msg = "CLI execution failed")

\* C19 as stated: a call that timed out has sent terminate to the process
\* and waited for it, in every case.
C19_TimeoutAlwaysTerminates ==
    (TimedOut /\ npc = "done")
    => (/\ signals # <<>>
        /\ signals[1] = "terminate"
        /\ waited
        /\ returncode # Nothing)

\* C19, amended: when the read loop is still waiting, the expiry of the
\* timeout ends it with the timeout error, which is not the execution
\* failure; a call that timed out sends a signal only to a process that has
\* not exited, terminate first and kill after it, and when it finishes the
\* process has exited: on its own before the cleanup looked at it and then
\* no signal was sent, or after terminate, or after terminate and kill and
\* then of the kill, and in both these cases it was waited for.
C19_TimeoutCleanup ==
    /\ [](TimedOut => (outcome.kind = "raise" /\ outcome.msg # "CLI execution failed"
                       /\ outcome.secs = DefaultTimeout /\ npc # "reading"))
    /\ []((TimedOut /\ npc = "done")
          => (/\ returncode # Nothing
              /\ signals \in {<<>>, <<"terminate">>, <<"terminate", "kill">>}
              /\ (signals = <<>>) = (~ waited)
              /\ (signals = <<>> => returncode \in {Some(0), Some(1)})
              /\ (signals = <<"terminate", "kill">> => returncode = Some(0 - 9))))
    /\ [][(TimedOut /\ signals' # signals)
          => (/\ returncode = Nothing
              /\ signals' = Append(signals, IF signals = <<>> THEN "terminate" ELSE "kill"))]_vars

\* a timed out call whose process ignored terminate, was killed and waited for
C19_Witness ==
    /\ TimedOut
    /\ npc = "done"
    /\ signals = <<"terminate", "kill">>
    /\ waited
    /\ returncode = Some(0 - 9)

RECURSIVE Chunkings(_)
\* the ways of splitting the bytes into the chunks of successive reads
Chunkings(b) ==
    IF b = <<>> THEN {<<>>}
    ELSE UNION {{<<SubSeq(b, 1, n)>> \o c : c \in Chunkings(SubSeq(b, n + 1, Len(b)))} :
                  n \in 1..(IF Len(b) < MaxChunkLen THEN Len(b) ELSE MaxChunkLen)}

\* C39: when the read loop has returned a value on the bytes the process
\* wrote before closing stdout, every other way of splitting these bytes
\* into read chunks that returns a value returns the same one.
C39_ChunkingIndependence ==
    (npc # "reading" /\ outcome.kind = "return")
    => \A chunks \in Chunkings(stdout_buffer) :
          read_until_json(<<>>, chunks).kind = "return"
          => read_until_json(<<>>, chunks) = outcome

\* executor.py 176, 165-168: run_stream is over, by its return, by the
\* error of a non-zero exit or by an exception of the read loop
StreamFinished == st \in {"returned", "failed", "raised"}

\* executor.py 171: the one place where run_stream waits for the process;
\* it sends no signal anywhere
StreamProcessWaited == st \in {"returned", "failed"}

\* C20: when run_stream is over, on whatever path, the process it spawned
\* has been waited for or stopped.
C20_StreamProcessReaped == StreamFinished => StreamProcessWaited

\* C21: when the request is cancelled while run_stream is suspended at a
\* chunk, the external process has been sent a signal that stops it, or has
\* been waited for: it is not left running.
C21_CancelTerminatesProcess ==
    st = "closed" => (sprocess.signals # <<>> \/ sprocess.waited)

\* the parsed events among the first n lines
ParsedBefore(n) == {j \in 1..n : lines[j].json = "object"}

\* the type of the parsed event before line i, None when there is none
PrevParsedType(i) ==
    IF ParsedBefore(i - 1) = {} THEN None
    ELSE lines[CHOOSE j \in ParsedBefore(i - 1) :
                   \A k \in ParsedBefore(i - 1) : k <= j].type

\* the type of line i differs from the type of the parsed event before it
TypeDiffers(i) == ParsedBefore(i - 1) = {} \/ lines[i].type # PrevParsedType(i)

Separators(chunks) == Len(SelectSeq(chunks, LAMBDA c : c = Separator))

\* C33: every parsed event emits one newline chunk, before anything else,
\* when its type differs from the type of the parsed event before it (always
\* for the first one) and none when it does not; after the event its type
\* is the last type, and the accumulated text is empty after an event of
\* another type that carries no text.
C33_TypeChangeSeparator ==
    /\ \A i \in 1..Len(lines) :
          lines[i].json = "object" =>
              /\ Separators(ChunksOf(i)) = (IF TypeDiffers(i) THEN 1 ELSE 0)
              /\ TypeDiffers(i) => ChunksOf(i)[1] = Separator
    /\ (st = "reading" /\ lines # <<>> /\ lines[Len(lines)].json = "object")
       => /\ last_type = lines[Len(lines)].type
          /\ (TypeDiffers(Len(lines)) /\ ~IsTextEvent(lines[Len(lines)]))
             => last_full_text = <<>>

\* the chunks emitted after the last separator
SinceSeparator ==
    LET I == {i \in 1..Len(out) : out[i] = Separator}
    IN IF I = {} THEN out
       ELSE SubSeq(out, (CHOOSE i \in I : \A j \in I : j <= i) + 1, Len(out))

\* the texts of the text chunks of a chunk sequence, concatenated
TextOf(chunks) ==
    LET texts == SelectSeq(chunks, LAMBDA c : c.k = "text")
    IN Flatten([i \in 1..Len(texts) |-> texts[i].t])

\* C34: at every point of run_stream the accumulated text is the
\* concatenation of the assistant text chunks emitted since the last type
\* change.
C34_AccumulatedText == last_full_text = TextOf(SinceSeparator)

\* line i is a timestamped assistant event
IsTimestamped(i) ==
    lines[i].json = "object" /\ lines[i].type = "assistant" /\ lines[i].ts

\* the first line of the run of consecutive timestamped assistant events
\* that line i belongs to
RunStart(i) ==
    CHOOSE j \in 1..i :
        /\ \A k \in j..i : IsTimestamped(k)
        /\ \A k \in 1..(j - 1) : \E n \in k..(j - 1) : ~IsTimestamped(n)

\* the run of line i starts the stream or follows a parsed event of
\* another type, so that the type changes where the run starts
StartsAtTypeChange(i) ==
    \/ RunStart(i) = 1
    \/ /\ lines[RunStart(i) - 1].json = "object"
       /\ lines[RunStart(i) - 1].type # "assistant"

\* the texts of the events of the run before line i, concatenated
RunTextBefore(i) ==
    Flatten([k \in 1..(i - RunStart(i)) |->
                FullText(lines[RunStart(i) + k - 1].content)])

TextChunksOf(i) == SelectSeq(ChunksOf(i), LAMBDA c : c.k = "text")

-----------------------------------------------------------------------------
(* Claims on CommandBuilder *)

\* the parts of the instruction that come from user turns
UserParts == {i \in 1..Len(bmessages) : bmessages[i].role = "user"}

\* C22: in the instruction built for the external process, a user turn's
\* text longer than 4000 characters is an @path reference and one of at most
\* 4000 characters is inlined; the text of every system and assistant turn
\* is inlined whatever its length, and the files written are those of the
\* user turns only.
C22_LargeContentRouting ==
    bclass # "none" =>
        /\ Len(bprompt) = Len(bmessages)
        /\ \A i \in 1..Len(bmessages) :
              IF bmessages[i].role = "user" /\ bmessages[i].content.len > CONTENT_SIZE_THRESHOLD
              THEN bprompt[i].body.kind = "ref"
              ELSE bprompt[i].body = Inline(bmessages[i].content)
        /\ PromptFiles(bprompt) = UNION {FilesOf(bprompt[i].body) : i \in UserParts}

\* the list of turns has an assistant turn
HasAssistant(messages) == \E i \in 1..Len(messages) : messages[i].role = "assistant"

\* the instruction is the parts of the turns, in the order of the turns,
\* joined by a blank line, and every part carries the upper-cased role of
\* its turn when the list has an assistant turn and no label otherwise
LabelledAndJoined ==
    /\ Len(bprompt) = Len(bmessages)
    /\ \A i \in 1..Len(bmessages) :
          /\ bprompt[i].prefix = IF HasAssistant(bmessages)
                                 THEN Some(Upper(bmessages[i].role)) ELSE Nothing
          /\ bprompt[i].body \in {Inline(bmessages[i].content),
                                  process_content_part(bmessages[i].content)}
    /\ Len(JoinBlank(bprompt)) = 2 * Len(bmessages) - 1
    /\ \A i \in 1..Len(bmessages) : JoinBlank(bprompt)[2 * i - 1] = bprompt[i]
    /\ \A i \in 1..(Len(bmessages) - 1) : JoinBlank(bprompt)[2 * i] = BlankLine

-----------------------------------------------------------------------------
(* Claims on ModelRegistry *)

\* C23: for every model id of the CLI, turning the id shown at the API back
\* gives the id of the CLI, and showing the shown id again changes nothing.
C23_RemapInvertibleIdempotent ==
    /\ gcli # Nothing => gcli[1] = gmodel
    /\ gmodel # <<>> => to_display_id(gdisplay) = gdisplay

-----------------------------------------------------------------------------
(* Claims on calculate_history_hash *)

StripThink(content) ==
    IF content = <<ThinkReply>> THEN <<BareReply>> ELSE content

\* the pairs of a turn list, think blocks left out
BarePairs(pairs) ==
    [i \in 1..Len(pairs) |-> <<pairs[i][1], pairs[i][2], StripThink(pairs[i][3])>>]

\* C36: two turn lists that differ only in that an assistant turn carries
\* the reply after a think block instead of the bare reply have the same
\* fingerprint.
C36_ThinkBlockIgnored ==
    (hprev # Nothing /\ hcur # Nothing /\ BarePairs(hprev[1].pairs) = BarePairs(hcur[1].pairs))
    => hprev[1].hash = hcur[1].hash

-----------------------------------------------------------------------------
(* Claims on create_session *)

\* C25: when create-chat exits with a non-zero status, create_session
\* raises, the temporary directory the call made does not exist any more
\* and the index is the one the call found.
C25_FailedCreation ==
    (clast # Nothing /\ clast[1].result = "non-zero exit")
    => /\ clast[1].outcome[1] = "RuntimeError"
       /\ clast[1].temp_dir # Nothing => clast[1].temp_dir[1] \notin cdirs
       /\ cindex = clast[1].index_before

\* create-chat failed in a call that made a temporary directory, with a
\* session in the index and its directory in place
C25_Witness ==
    /\ clast # Nothing
    /\ clast[1].result = "non-zero exit"
    /\ clast[1].temp_dir # Nothing
    /\ DOMAIN cindex # {}
    /\ cdirs = clast[1].dirs_before
    /\ cdirs # {}

-----------------------------------------------------------------------------
(* Claims on event_generator *)

\* the deltas of the chunks of run_stream, in their order
DeltasOf(chunks) == [i \in 1..Len(chunks) |-> DeltaEvent(chunks[i])]

\* the events of a reply whose run_stream ended without raising
OrderedEvents ==
    DeltasOf(echunks) \o (IF ethink THEN <<DeltaEvent(ThinkBlock)>> ELSE <<>>)
    \o <<FinalEvent, DoneEvent>>

\* C27: when the generator of a reply whose run_stream did not raise has
\* ended, its events are one delta per chunk of run_stream in the same
\* order, the think block when it is due, the chunk with finish_reason stop
\* and [DONE]; no event follows [DONE].
C27_StreamOrdering ==
    /\ (epos = "end" /\ eraised # "run_stream") => eevents = OrderedEvents
    /\ \A i \in 1..Len(eevents) : eevents[i] = DoneEvent => i = Len(eevents)

\* C28: when run_stream raises after chunks were sent, the events are the
\* deltas of those chunks followed by one error event with message and
\* type, [DONE] is not among them, and update_session_hash has not run.
C28_MidStreamError ==
    eraised = "run_stream"
    => /\ epos = "end"
       /\ eevents = Append(DeltasOf(echunks), ErrorEvent(ExecutionFailed))
       /\ \A i \in 1..Len(eevents) : eevents[i] # DoneEvent
       /\ ~emigrated

\* run_stream raised after two chunks
C28_Witness ==
    /\ eraised = "run_stream"
    /\ Len(echunks) = 2
    /\ Len(eevents) = 3
    /\ eevents[3].error # Nothing

-----------------------------------------------------------------------------
(* Claims on chat_completions and the session index *)

NoTag(body) == extract_workspace_from_messages(body).session_id = Nothing

\* the fingerprint of all turns of the cleaned body but the newest
PriorHash(body) ==
    LET cleaned == extract_workspace_from_messages(body).cleaned
    IN calculate_history_hash(SubSeq(cleaned, 1, Len(cleaned) - 1))

\* the fingerprint of the cleaned turns followed by the reply
PostReplyHash(r, content) ==
    calculate_history_hash(r.cleaned_messages \o <<Turn("assistant", content)>>)

\* the fingerprint under which the request found or created its session
FoundUnder(r) ==
    IF r.custom_session_hash # Nothing THEN r.custom_session_hash[1]
    ELSE r.history_hash

\* this step takes the request of slot s from its arrival to the built command
ReceiveStep(s) == reqs[s].phase = "idle" /\ reqs'[s].phase = "running"

\* this step ends the exchange of slot s with a reply
FinishStep(s) ==
    reqs[s].phase = "running" /\ reqs'[s].phase = "idle" /\ last'.op = "ok"

\* C1: after a successful exchange whose session was found or created under
\* h1 and that produced reply r, the index has no entry under h1, has one
\* under fingerprint(cleaned turns + [assistant:r]) with the session_id the
\* exchange used, and exactly one entry carries that session_id.
C1_FingerprintChaining ==
    [][\A s \in Slots :
        FinishStep(s) =>
            LET r == reqs[s]
                h2 == PostReplyHash(r, last'.content)
            IN /\ FoundUnder(r) \notin DOMAIN index'
               /\ h2 \in DOMAIN index'
               /\ index'[h2].session_id = r.session_id
               /\ Cardinality(HashesOfSessionId(index', r.session_id)) = 1]_vars

\* C2: when the fingerprint of the prior turns is in the index and the
\* request carries no session_id tag, no session is created, the command
\* resumes the session of that entry and carries the newest turn only.
C2_HitResumesNewestTurn ==
    [][\A s \in Slots :
        (/\ ReceiveStep(s)
         /\ NoTag(reqs'[s].body)
         /\ PriorHash(reqs'[s].body) \in DOMAIN index)
        => LET r == reqs'[s]
           IN /\ created' = created
              /\ index' = index
              /\ r.cmd.resume = Some(index[PriorHash(r.body)].session_id)
              /\ r.cmd.messages = <<r.body[Len(r.body)]>>]_vars

\* a three-turn request resumes s1 with its newest turn only
C2_Witness ==
    \E s \in Slots :
        /\ reqs[s].phase = "running"
        /\ reqs[s].is_session_hit
        /\ NoTag(reqs[s].body)
        /\ Len(reqs[s].body) = 3
        /\ reqs[s].cmd.messages = <<U(<<"n">>)>>
        /\ reqs[s].cmd.resume = Some("s1")
        /\ created = 1

\* the session_id tag of the body names no session of the index
NoKnownTag(body) ==
    LET sid == extract_workspace_from_messages(body).session_id
    IN IF sid = Nothing THEN TRUE ELSE HashesOfSessionId(index, sid[1]) = {}

\* C3: when the fingerprint of the prior turns is not in the index and no
\* known session_id tag is given, exactly one session is created, the command
\* resumes it with the full turn list, and after the reply its record is
\* stored under fingerprint(full turn list + [assistant:reply]).
C3_MissCreatesAndStores ==
    [][\A s \in Slots :
        /\ (/\ ReceiveStep(s)
            /\ NoKnownTag(reqs'[s].body)
            /\ PriorHash(reqs'[s].body) \notin DOMAIN index)
           => LET r == reqs'[s]
              IN /\ created' = created + 1
                 /\ r.session_id = SessionIds[created']
                 /\ r.cmd.resume = Some(r.session_id)
                 /\ r.cmd.messages = r.cleaned_messages
        /\ (FinishStep(s) /\ ~reqs[s].is_session_hit)
           => LET h2 == PostReplyHash(reqs[s], last'.content)
              IN /\ h2 \in DOMAIN index'
                 /\ index'[h2].session_id = reqs[s].session_id]_vars

\* the session ids of the completed exchanges that carried this body
RepeatOf(body) == {c.session_id : c \in {x \in completed : x.body = body}}

\* C4: a single-turn request issued again after the exchange with the same
\* message list has completed is a miss: a new session with another
\* session_id is created and resumed for it, and the first conversation,
\* stored under its post-reply fingerprint, is not resumed.
C4_RepeatIsMiss ==
    [][\A s \in Slots :
        (/\ ReceiveStep(s)
         /\ Len(reqs'[s].body) = 1
         /\ NoTag(reqs'[s].body)
         /\ RepeatOf(reqs'[s].body) # {})
        => LET r == reqs'[s]
           IN /\ ~r.is_session_hit
              /\ created' = created + 1
              /\ r.session_id = SessionIds[created']
              /\ r.session_id \notin RepeatOf(r.body)
              /\ r.cmd.resume = Some(r.session_id)]_vars

\* C5: a miss adds exactly one entry, a successful exchange relocates
\* exactly one entry's key and leaves the size unchanged, and every Session
\* Record of the index is still in it after any step.
C5_IndexEffect ==
    [][/\ \A s \in Slots :
          /\ (ReceiveStep(s) /\ ~reqs'[s].is_session_hit)
             => /\ Cardinality(DOMAIN index') = Cardinality(DOMAIN index) + 1
                /\ \A h \in DOMAIN index :
                      h \in DOMAIN index' /\ index'[h] = index[h]
          /\ FinishStep(s)
             => /\ Cardinality(DOMAIN index') = Cardinality(DOMAIN index)
                /\ Cardinality(DOMAIN index \ DOMAIN index') = 1
                /\ Cardinality(DOMAIN index' \ DOMAIN index) = 1
       /\ \A h \in DOMAIN index :
            HashesOfSessionId(index', index[h].session_id) # {}]_vars

\* the session id the tag of the body names, Nothing without a tag
TaggedId(body) == extract_workspace_from_messages(body).session_id

\* C26: a request whose tag names a session of the index resumes that
\* session with its newest turn only, and the step that ends its exchange
\* with a reply leaves that session's entry under the post-reply fingerprint
\* and under no key it had before; a request whose tag names no session of
\* the index resumes a session of the index, the one of its prior-turn
\* fingerprint on a hit and the one it creates on a miss.
C26_CustomSessionId ==
    [][\A s \in Slots :
        /\ (/\ ReceiveStep(s)
            /\ TaggedId(reqs'[s].body) # Nothing
            /\ HashesOfSessionId(index, TaggedId(reqs'[s].body)[1]) # {})
           => LET r == reqs'[s]
              IN /\ r.is_session_hit
                 /\ created' = created
                 /\ r.cmd.resume = TaggedId(r.body)
                 /\ r.cmd.messages = <<r.cleaned_messages[Len(r.cleaned_messages)]>>
        /\ (/\ ReceiveStep(s)
            /\ TaggedId(reqs'[s].body) # Nothing
            /\ HashesOfSessionId(index, TaggedId(reqs'[s].body)[1]) = {})
           => LET r == reqs'[s]
              IN /\ r.cmd.resume # Nothing
                 /\ HashesOfSessionId(index', r.cmd.resume[1]) # {}
                 /\ IF PriorHash(r.body) \in DOMAIN index
                    THEN /\ r.is_session_hit
                         /\ r.cmd.resume = Some(index[PriorHash(r.body)].session_id)
                    ELSE /\ ~r.is_session_hit
                         /\ created' = created + 1
                         /\ r.cmd.resume = Some(SessionIds[created'])
        /\ (FinishStep(s) /\ reqs[s].custom_session_hash # Nothing)
           => LET r == reqs[s]
                  h2 == PostReplyHash(r, last'.content)
              IN /\ HashesOfSessionId(index', r.session_id) = {h2}
                 /\ \A h \in DOMAIN index :
                       (h \in DOMAIN index' /\ h # h2) => index'[h] = index[h]]_vars

\* the turns of the cleaned body before the newest
PriorTurns(r) == SubSeq(r.cleaned_messages, 1, Len(r.cleaned_messages) - 1)

\* C29: whenever a request without session_id tag is served as a hit and
\* forwards its newest turn only, the turns of the completed exchanges of
\* the session it resumes (the turns forwarded, then the reply), in order,
\* are the prior turns of the request.
C29_SessionContinuity ==
    [][\A s \in Slots :
        (/\ ReceiveStep(s)
         /\ NoTag(reqs'[s].body)
         /\ reqs'[s].is_session_hit)
        => exchanged[reqs'[s].session_id] = PriorTurns(reqs'[s])]_vars

\* no two fingerprints of the index carry the same session_id
UniqueSessionIds(sessions) ==
    \A h1, h2 \in DOMAIN sessions :
        sessions[h1].session_id = sessions[h2].session_id => h1 = h2

CreatedIds(n) == {SessionIds[i] : i \in 1..n}

\* C31: however the requests interleave, the step that ends an exchange
\* with a reply leaves the post-reply fingerprint of the exchange mapped to
\* the session_id the exchange resumed, and every session created so far
\* is the session of some entry of the index after every step.
C31_LineageBinding ==
    [][/\ \A s \in Slots :
            FinishStep(s) =>
                LET h2 == PostReplyHash(reqs[s], last'.content)
                IN /\ h2 \in DOMAIN index'
                   /\ index'[h2].session_id = reqs[s].cmd.resume[1]
       /\ \A session_id \in CreatedIds(created') :
            HashesOfSessionId(index', session_id) # {}]_vars

\* this step ends the non-streaming exchange of slot s whose execution
\* failed or timed out
FailedStep(s) ==
    /\ reqs[s].phase = "running" /\ ~reqs[s].stream
    /\ reqs'[s].phase = "idle"
    /\ last'.op \in {"error", "exit_nonzero"}

\* C32: the step that ends a non-streaming exchange whose execution failed
\* or timed out leaves the index as it is; the lookup-or-create step leaves
\* the index unchanged on a hit and, on a miss, adds the new session under
\* the fingerprint of the prior turns and nothing else.
C32_IndexAfterFailure ==
    [][\A s \in Slots :
        /\ FailedStep(s) => index' = index
        /\ (ReceiveStep(s) /\ reqs'[s].is_session_hit) => index' = index
        /\ (ReceiveStep(s) /\ ~reqs'[s].is_session_hit)
           => /\ reqs'[s].history_hash \in DOMAIN index'
              /\ index'[reqs'[s].history_hash].session_id = reqs'[s].session_id
              /\ \A h \in DOMAIN index' \ {reqs'[s].history_hash} :
                    h \in DOMAIN index /\ index'[h] = index[h]]_vars

\* the request that continues the exchange of r: the turn list of r, then
\* an assistant turn with what was delivered, then one user turn
FollowUp(r, content) ==
    r.body \o <<Turn("assistant", Delivered(r, content)), U(<<"n">>)>>

\* C37: once an untagged exchange has ended with a reply, the request that
\* continues it with what was delivered to the client finds, by the
\* fingerprint of its prior turns, the session of that exchange.
C37_ContinuationRoundTrip ==
    [][\A s \in Slots :
        (FinishStep(s) /\ NoTag(reqs[s].body))
        => LET h == PriorHash(FollowUp(reqs[s], last'.content))
               session == get_session_by_hash(index', h)
           IN /\ session # Nothing
              /\ session[1].session_id = reqs[s].session_id]_vars

\* this step ends the exchange of slot s with a call of update_session_hash
MigrationStep(s) ==
    /\ reqs[s].phase = "running" /\ reqs'[s].phase = "idle"
    /\ last'.op \in {"ok", "exit_nonzero"}

\* C38: update_session_hash(old, new) leaves the index as it is when old is
\* not a key of it; otherwise the record of old is found under new with
\* its session_id, title, created_at and workspace_dir, and every entry
\* under another key than old is still there with the record it had.
C38_MigrationFrame ==
    [][\A s \in Slots :
        MigrationStep(s) =>
            LET old_hash == FoundUnder(reqs[s])
                new_hash == PostReplyHash(reqs[s], last'.content)
            IN IF old_hash \notin DOMAIN index THEN index' = index
               ELSE /\ new_hash \in DOMAIN index'
                    /\ index'[new_hash] =
                          [index[old_hash] EXCEPT !.updated_at = index'[new_hash].updated_at]
                    /\ \A h \in DOMAIN index \ {old_hash} :
                          h \in DOMAIN index' /\ index'[h] = index[h]]_vars

-----------------------------------------------------------------------------
(* Claims on the lock discipline of SessionManager *)

\* the positions of a call between the read of the file and its rewrite
InsideLock == {"load_read", "save_read", "save_open", "save_dump"}

\* process p of update_session_hash has read the record under the old
\* fingerprint and has not yet written it back
MigrationPending(p) ==
    /\ proc[p].op = "update"
    /\ proc[p].pc \in {"save_acquire", "save_read", "save_open", "save_dump"}

\* C6: between the read of the record under the old fingerprint and its
\* write-back under the new one, update_session_hash keeps the lock, so the
\* file is written by no other process.
C6_MigrationAtomic ==
    [][\A p \in Procs :
        MigrationPending(p) => (storage' = storage \/ lock = p)]_vars

\* C7: a process reads or writes sessions.json only while it holds the lock,
\* what save_session is about to overwrite is what it re-read, and whenever
\* the lock is free (so once all calls have returned) the file holds every
\* fingerprint the finished save_session calls inserted.
C7_LockedNoLostUpdate ==
    /\ \A p \in Procs : proc[p].pc \in InsideLock => lock = p
    /\ \A p \in Procs :
          proc[p].pc = "save_open" => proc[p].data = Some(Decode(storage))
    /\ lock = 0 => (storage # Nothing /\ DOMAIN Decode(storage) = live)

\* two create_session saves on distinct fingerprints, one per process, have
\* both returned and both entries are in the file
C7_Witness ==
    /\ \A p \in Procs : proc[p].pc = "idle"
    /\ proc[1].op = "create" /\ proc[1].result = "ok"
    /\ proc[2].op = "create" /\ proc[2].result = "ok"
    /\ started = 2
    /\ Cardinality(DOMAIN Decode(storage)) = 2
    /\ {Decode(storage)[h].session_id : h \in DOMAIN Decode(storage)} = {"s1", "s2"}

\* process p gives up waiting for the lock in this step
TimeoutStep(p) ==
    /\ proc[p].pc \in {"load_acquire", "save_acquire"}
    /\ lock \notin {0, p}
    /\ lock' = lock
    /\ proc'[p] # proc[p]

CrashStep(p) == proc[p].pc # "crashed" /\ proc'[p].pc = "crashed"

\* C9: when a process is killed inside save_session, the index the next
\* load finds in the file is the complete index from before the call or the
\* complete index after it.
C9_CrashSafe ==
    [][\A p \in Procs :
        (CrashStep(p) /\ proc[p].pc \in {"save_open", "save_dump"})
        => LET before == proc[p].data[1]
               after == SaveSessionIndex(before, proc[p].history_hash[1],
                                         proc[p].session_data[1],
                                         proc[p].old_hash)
           IN Decode(storage') \in {before, after}]_vars

====
